---- MODULE Spec2Model ----
(***************************************************************************)
(* The raster decode / derive / encode pipeline of area_explorer's         *)
(* fetch-satellite edge function (supabase/functions/fetch-satellite/      *)
(* index.ts): the TIFF container reader parseTiffInt16ToFloat32, the LZW   *)
(* decoder decompressLZW, the Deflate adapter decompressDeflate, the       *)
(* offset scanner extractFallback, the index calculator generateNdviMask   *)
(* and the bitmap writer createBMP.                                        *)
(*                                                                         *)
(* Conventions.  A byte buffer is a sequence of 0..255; the byte at offset *)
(* p is buf[p + 1].  A decoded sample int16 / 10000 is kept as its         *)
(* numerator, the signed 16-bit integer, so a raster is a sequence of      *)
(* integers in units of 1/10000 (the rounding of the quotient to a 32-bit  *)
(* float is injective on these 65536 values and is not represented).       *)
(***************************************************************************)
EXTENDS Integers, Sequences, FiniteSets, TLC

VARIABLES
  buffer,     \* parseTiffInt16ToFloat32: the ArrayBuffer handed in
  width,      \* declared width
  height,     \* declared height
  src,        \* how the buffer was assembled (known samples, layout)
  decoded,    \* outcome of the decode: pending, a raster, or a thrown error
  job,        \* which function of the mask stage is called
  b04Data,    \* generateNdviMask: the red band
  b08Data,    \* generateNdviMask: the near-infrared band
  mask,       \* what generateNdviMask returned, or pending
  rgba,       \* createBMP: the pixel buffer handed in
  bmp,        \* what createBMP returned, or pending
  lzwIn,      \* the byte sequence given to the reference LZW encoder
  lzwEnc,     \* the reference encoder's variables and the bytes it wrote
  lzwDec,     \* decompressLZW's variables
  lzwPhase,   \* "idle", "encoding", "decoding" or "done"
  inflate,    \* decompressDeflate: its argument, loop position and outcome
  bandTasks,  \* the handler's fetchBandData calls, one per band
  settled,    \* the bands in the order in which their calls settled
  bandDataMap, \* the handler's band map, pending until Promise.all resolves
  hook,       \* useSatelliteProcessing: its state and the calls in flight
  panel       \* ImageVisualization: its state and the fetches in flight

tiffVars == <<buffer, src, decoded>>

maskVars == <<job, b04Data, b08Data, mask, rgba, bmp>>

lzwVars == <<lzwIn, lzwEnc, lzwDec, lzwPhase>>

handlerVars == <<bandTasks, settled, bandDataMap>>

uiVars == <<hook, panel>>

vars == <<buffer, width, height, src, decoded, job, b04Data, b08Data, mask, rgba, bmp,
          lzwIn, lzwEnc, lzwDec, lzwPhase, inflate, bandTasks, settled, bandDataMap,
          hook, panel>>

----------------------------------------------------------------------------
(* DataView / Uint8Array reads                                             *)

Min(a, b) == IF a < b THEN a ELSE b

Max(a, b) == IF a > b THEN a ELSE b

\* A DataView read of n bytes at pos is a RangeError unless this holds.
InBounds(buf, pos, n) == pos >= 0 /\ pos + n <= Len(buf)

getUint8(buf, pos) == buf[pos + 1]

getUint16(buf, pos, littleEndian) ==
  IF littleEndian THEN buf[pos + 1] + 256 * buf[pos + 2]
  ELSE 256 * buf[pos + 1] + buf[pos + 2]

getUint32(buf, pos, littleEndian) ==
  IF littleEndian
  THEN buf[pos + 1] + 256 * buf[pos + 2] + 65536 * buf[pos + 3]
         + 16777216 * buf[pos + 4]
  ELSE 16777216 * buf[pos + 1] + 65536 * buf[pos + 2] + 256 * buf[pos + 3]
         + buf[pos + 4]

\* A reader that forgets the sign of a sample.
getInt16_Unsigned(buf, pos, littleEndian) == getUint16(buf, pos, littleEndian)

getInt16(buf, pos, littleEndian) ==
  LET u == getUint16(buf, pos, littleEndian)
  IN IF u >= 32768 THEN u - 65536 ELSE u

\* Uint8Array.prototype.slice(start, end) with both ends clamped to the array.
Slice(buf, start, end) ==
  LET a == Min(Max(start, 0), Len(buf))
      b == Min(Max(end, 0), Len(buf))
  IN IF b <= a THEN << >> ELSE SubSeq(buf, a + 1, b)

Zeros(n) == [i \in 1..n |-> 0]

----------------------------------------------------------------------------
(* parseTiffInt16ToFloat32: the IFD                                        *)

\* StripOffsets / StripByteCounts with count # 1: the array the value field
\* points to, read while it lies inside the buffer.
RECURSIVE ReadLongArray(_, _, _, _, _)
ReadLongArray(buf, littleEndian, ptr, count, j) ==
  IF j < count /\ ptr + j * 4 + 4 <= Len(buf)
  THEN <<getUint32(buf, ptr + j * 4, littleEndian)>>
         \o ReadLongArray(buf, littleEndian, ptr, count, j + 1)
  ELSE << >>

\* The state of the IFD loop before any entry is read.
IfdInit(h) ==
  [compression |-> 1, stripOffsets |-> << >>, stripByteCounts |-> << >>,
   rowsPerStrip |-> h]

\* One IFD entry, at entryOffset, applied to the loop state st.
IfdEntry(buf, littleEndian, entryOffset, st) ==
  LET tag == getUint16(buf, entryOffset, littleEndian)
      type == getUint16(buf, entryOffset + 2, littleEndian)
      count == getUint32(buf, entryOffset + 4, littleEndian)
      valueField == entryOffset + 8
      getValue == IF type = 3 THEN getUint16(buf, valueField, littleEndian)
                  ELSE getUint32(buf, valueField, littleEndian)
      getPointer == getUint32(buf, valueField, littleEndian)
  IN CASE tag = 259 -> [st EXCEPT !.compression = getValue]
       [] tag = 278 -> [st EXCEPT !.rowsPerStrip = getValue]
       [] tag = 273 ->
            IF count = 1 THEN [st EXCEPT !.stripOffsets = <<getValue>>]
            ELSE [st EXCEPT !.stripOffsets =
                    @ \o ReadLongArray(buf, littleEndian, getPointer, count, 0)]
       [] tag = 279 ->
            IF count = 1 THEN [st EXCEPT !.stripByteCounts = <<getValue>>]
            ELSE [st EXCEPT !.stripByteCounts =
                    @ \o ReadLongArray(buf, littleEndian, getPointer, count, 0)]
       [] OTHER -> st

\* A loop that trusts the entry count.
EntryFits_Unchecked(entryOffset, byteLength) == TRUE

\* if (entryOffset + 12 > buffer.byteLength) break
EntryFits(entryOffset, byteLength) == entryOffset + 12 <= byteLength

\* The loop over the entries; it stops at the first entry that does not lie
\* wholly inside the buffer.
RECURSIVE ParseEntries(_, _, _, _, _, _)
ParseEntries(buf, littleEndian, ifdOffset, i, numEntries, st) ==
  LET entryOffset == ifdOffset + 2 + i * 12
  IN IF i >= numEntries \/ ~EntryFits(entryOffset, Len(buf)) THEN st
     ELSE ParseEntries(buf, littleEndian, ifdOffset, i + 1, numEntries,
                       IfdEntry(buf, littleEndian, entryOffset, st))

\* The DataView reads of tag, type, count and value field of the entries
\* the loop visits all lie inside the buffer; one that does not raises a
\* RangeError.
RECURSIVE EntriesInBounds(_, _, _, _)
EntriesInBounds(buf, ifdOffset, i, numEntries) ==
  LET entryOffset == ifdOffset + 2 + i * 12
  IN IF i >= numEntries \/ ~EntryFits(entryOffset, Len(buf)) THEN TRUE
     ELSE IF ~InBounds(buf, entryOffset, 12) THEN FALSE
     ELSE EntriesInBounds(buf, ifdOffset, i + 1, numEntries)

----------------------------------------------------------------------------
(* decompressLZW                                                           *)

\* (bitBuffer << 8) | byte on a 32-bit signed integer: the top eight bits
\* fall off and bit 31 becomes the sign.
ShiftInByte(bitBuffer, byte) ==
  LET low == bitBuffer % 16777216
  IN IF low >= 8388608 THEN (low - 16777216) * 256 + byte
     ELSE low * 256 + byte

\* input[bytePos]: a read past the end of a Uint8Array is undefined, which
\* the bitwise or takes as 0.
InputByte(input, bytePos) ==
  IF bytePos < Len(input) THEN input[bytePos + 1] ELSE 0

\* The 256 single-byte strings: dictionary[i] = [i], kept at index i + 1.
InitialDictionary == [i \in 1..256 |-> <<i - 1>>]

\* dictionary.length = 258 followed by the reset of the first 256 entries:
\* the slots of codes 256 and 257 are holes, written << >>.
ClearedDictionary == [i \in 1..258 |-> IF i <= 256 THEN <<i - 1>> ELSE << >>]

\* dictionary[code] = entry: an assignment past the end leaves holes.
DictSet(dictionary, code, entry) ==
  IF code < Len(dictionary) THEN [dictionary EXCEPT ![code + 1] = entry]
  ELSE dictionary \o [i \in 1..(code - Len(dictionary)) |-> << >>] \o <<entry>>

\* The decoder's variables before the loop.
LzwStart(offset) ==
  [output |-> << >>, dictionary |-> InitialDictionary, nextCode |-> 258,
   codeSize |-> 9, bitBuffer |-> 0, bitsInBuffer |-> 0, bytePos |-> offset,
   oldCode |-> -1, running |-> TRUE]

\* The while loop's condition.
LzwMore(d, endPos) ==
  d.running /\ (d.bytePos < endPos \/ d.bitsInBuffer >= d.codeSize)

\* readCode's refill loop.
RECURSIVE FillBits(_, _, _)
FillBits(input, endPos, d) ==
  IF d.bitsInBuffer < d.codeSize /\ d.bytePos < endPos
  THEN FillBits(input, endPos,
                [d EXCEPT !.bitBuffer = ShiftInByte(@, InputByte(input, d.bytePos)),
                          !.bitsInBuffer = @ + 8,
                          !.bytePos = @ + 1])
  ELSE d

\* A shift without the mask: the bits of earlier codes stay above the code.
ExtractCode_Unmasked(bitBuffer, bitsInBuffer, codeSize) ==
  bitBuffer \div (2 ^ bitsInBuffer)

\* (bitBuffer >> bitsInBuffer) & ((1 << codeSize) - 1)
ExtractCode(bitBuffer, bitsInBuffer, codeSize) ==
  (bitBuffer \div (2 ^ bitsInBuffer)) % (2 ^ codeSize)

\* A reader that hands out a code and keeps its bits.
BitsLeft_NoneTaken(bitsInBuffer, codeSize) == bitsInBuffer

\* bitsInBuffer -= codeSize
BitsLeft(bitsInBuffer, codeSize) == bitsInBuffer - codeSize

\* readCode: the state after the read, with the code read in field code.
readCode(input, endPos, d) ==
  LET f == FillBits(input, endPos, d)
  IN IF f.bitsInBuffer < f.codeSize THEN [st |-> f, code |-> 257]
     ELSE LET g == [f EXCEPT !.bitsInBuffer = BitsLeft(@, f.codeSize)]
          IN [st |-> g,
              code |-> ExtractCode(g.bitBuffer, g.bitsInBuffer, g.codeSize)]

\* The width to read the next code with, after the entry nextCode - 1 was added.
\* The growth rule of TIFF writers ("early change"): one code sooner.
GrowCodeSize_EarlyChange(nextCode, codeSize) ==
  IF nextCode + 1 >= 2 ^ codeSize /\ codeSize < 12 THEN codeSize + 1 ELSE codeSize

\* A rule that widens one code later than the capacity is reached.
GrowCodeSize_Late(nextCode, codeSize) ==
  IF nextCode > 2 ^ codeSize /\ codeSize < 12 THEN codeSize + 1 ELSE codeSize

\* if (nextCode >= (1 << codeSize) && codeSize < 12) codeSize++
GrowCodeSize(nextCode, codeSize) ==
  IF nextCode >= 2 ^ codeSize /\ codeSize < 12 THEN codeSize + 1 ELSE codeSize

\* An ending that throws away what was emitted before the invalid code.
InvalidCode_DropsOutput(d) == [d EXCEPT !.running = FALSE, !.output = << >>]

\* console.warn(`Invalid LZW code ${code}`); break: the loop is left with
\* the output as it stands.
InvalidCode(d) == [d EXCEPT !.running = FALSE]

\* The body of the while loop for a code that is neither clear nor EOI.
LzwEmit(d, code) ==
  LET known == code < Len(d.dictionary)
      kwkwk == code = d.nextCode /\ d.oldCode >= 0
      entry == IF known THEN d.dictionary[code + 1]
               ELSE d.dictionary[d.oldCode + 1] \o <<d.dictionary[d.oldCode + 1][1]>>
      adds == d.oldCode >= 0 /\ d.nextCode < 4096
  IN IF ~known /\ ~kwkwk THEN InvalidCode(d)
     ELSE [d EXCEPT
             !.output = @ \o entry,
             !.dictionary =
                IF adds
                THEN DictSet(@, d.nextCode, d.dictionary[d.oldCode + 1] \o <<entry[1]>>)
                ELSE @,
             !.nextCode = IF adds THEN @ + 1 ELSE @,
             !.codeSize = IF adds THEN GrowCodeSize(d.nextCode + 1, @) ELSE @,
             !.oldCode = code]

\* A clear that leaves the code size as it is.
LzwClear_KeepsWidth(d) ==
  [d EXCEPT !.dictionary = ClearedDictionary, !.nextCode = 258, !.oldCode = -1]

\* The branch of the clear code.
LzwClear(d) ==
  [d EXCEPT !.dictionary = ClearedDictionary, !.nextCode = 258,
            !.codeSize = 9, !.oldCode = -1]

\* One iteration of the while loop.
LzwStep(input, endPos, d) ==
  LET r == readCode(input, endPos, d)
  IN CASE r.code = 257 -> [r.st EXCEPT !.running = FALSE]
       [] r.code = 256 -> LzwClear(r.st)
       [] OTHER -> LzwEmit(r.st, r.code)

RECURSIVE LzwLoop(_, _, _)
LzwLoop(input, endPos, d) ==
  IF LzwMore(d, endPos) THEN LzwLoop(input, endPos, LzwStep(input, endPos, d))
  ELSE d

decompressLZW(input, offset, length) ==
  LzwLoop(input, offset + length, LzwStart(offset)).output

----------------------------------------------------------------------------
(* decompressDeflate, over DecompressionStream                             *)

\* The Adler-32 sums (s1, s2) of RFC 1950 after the bytes of out.
RECURSIVE Adler(_, _, _, _)
Adler(out, i, s1, s2) ==
  IF i > Len(out) THEN <<s1, s2>>
  ELSE LET t == (s1 + out[i]) % 65521
       IN Adler(out, i + 1, t, (s2 + t) % 65521)

\* The four bytes that close a zlib stream: s2 then s1, big-endian.
AdlerBytes(out) ==
  LET a == Adler(out, 1, 1, 0)
  IN <<a[2] \div 256, a[2] % 256, a[1] \div 256, a[1] % 256>>

\* The blocks of a Deflate stream from offset pos on (RFC 1951).  A stored
\* block (BTYPE 00) is LEN, its complement, and LEN literal bytes; BTYPE 11
\* is an error.  The buffers of this development carry no Huffman-coded
\* block (BTYPE 01 or 10) and such a block is refused here.  The result
\* holds the bytes inflated and the offset after the final block.
RECURSIVE InflateBlocks(_, _, _)
InflateBlocks(data, pos, out) ==
  IF pos + 5 > Len(data) THEN [ok |-> FALSE, out |-> << >>, end |-> pos]
  ELSE LET hdr == data[pos + 1]
           bfinal == hdr % 2
           btype == (hdr \div 2) % 4
           len == data[pos + 2] + 256 * data[pos + 3]
           nlen == data[pos + 4] + 256 * data[pos + 5]
           after == pos + 5 + len
       IN IF btype # 0 \/ len + nlen # 65535 \/ after > Len(data)
          THEN [ok |-> FALSE, out |-> << >>, end |-> pos]
          ELSE LET more == out \o SubSeq(data, pos + 6, after)
               IN IF bfinal = 1 THEN [ok |-> TRUE, out |-> more, end |-> after]
                  ELSE InflateBlocks(data, after, more)

\* new DecompressionStream('deflate-raw') fed data and closed: the stream
\* errors on a malformed or truncated stream and on bytes after its end.
InflateRaw(data) ==
  LET r == InflateBlocks(data, 0, << >>)
  IN IF r.ok /\ r.end = Len(data) THEN [ok |-> TRUE, out |-> r.out]
     ELSE [ok |-> FALSE, out |-> << >>]

\* new DecompressionStream('deflate') fed data and closed: a two-byte zlib
\* header (method 8, window at most 32K, no preset dictionary, check bits),
\* the Deflate stream, and its Adler-32.
InflateZlib(data) ==
  IF Len(data) < 2 THEN [ok |-> FALSE, out |-> << >>]
  ELSE LET cmf == data[1]
           flg == data[2]
           headerOk == /\ cmf % 16 = 8
                       /\ cmf \div 16 <= 7
                       /\ (cmf * 256 + flg) % 31 = 0
                       /\ (flg \div 32) % 2 = 0
           r == InflateBlocks(data, 2, << >>)
       IN IF /\ headerOk
             /\ r.ok
             /\ r.end + 4 = Len(data)
             /\ SubSeq(data, r.end + 1, r.end + 4) = AdlerBytes(r.out)
          THEN [ok |-> TRUE, out |-> r.out]
          ELSE [ok |-> FALSE, out |-> << >>]

\* One pass of decompressDeflate's loop body for a format.
InflateAs(format, data) ==
  IF format = "deflate-raw" THEN InflateRaw(data) ELSE InflateZlib(data)

\* An adapter that tries the zlib framing first.
DeflateFormats_ZlibFirst == <<"deflate", "deflate-raw">>

\* The order in which decompressDeflate tries the framings.
DeflateFormats == <<"deflate-raw", "deflate">>

\* decompressDeflate: the first format that does not throw gives the result;
\* ok = FALSE is the final throw.
RECURSIVE TryFormats(_, _)
TryFormats(data, k) ==
  IF k > Len(DeflateFormats) THEN [ok |-> FALSE, out |-> << >>]
  ELSE LET r == InflateAs(DeflateFormats[k], data)
       IN IF r.ok THEN r ELSE TryFormats(data, k + 1)

\* An adapter that tries the raw framing only.
decompressDeflate_RawOnly(data) == InflateRaw(data)

decompressDeflate(data) == TryFormats(data, 1)

----------------------------------------------------------------------------
(* extractFallback                                                         *)

\* A raster taken from memory that was not cleared.
NewRaster_Uninitialised(totalPixels) ==
  [result |-> [i \in 1..totalPixels |-> 32767], pixelIndex |-> 0]

\* A fresh Float32Array(totalPixels) and the write cursor pixelIndex.
NewRaster(totalPixels) == [result |-> Zeros(totalPixels), pixelIndex |-> 0]

\* val >= -1 && val <= 2 for val = int16 / 10000
Plausible(int16Val) == int16Val >= -10000 /\ int16Val <= 20000

\* A scanner that tries the end-aligned offset first.
PossibleStarts_EndFirst(buf, expectedBytes) ==
  <<Len(buf) - expectedBytes, 8, 256, 512>>

\* The candidate offsets, in the order they are tried.
PossibleStarts(buf, expectedBytes) == <<8, 256, 512, Len(buf) - expectedBytes>>

\* validSamples of the candidate at start.
ValidSamples(buf, littleEndian, start, totalPixels) ==
  Cardinality({i \in 0..(Min(100, totalPixels) - 1) :
                 Plausible(getInt16(buf, start + i * 2, littleEndian))})

\* The acceptance test of a candidate.
Accepts(validSamples) == validSamples > 80

\* A scanner that does not check that the payload fits.
CandidateFits_Unchecked(start, expectedBytes, byteLength) == start >= 0

\* start >= 0 && start + expectedBytes <= buffer.byteLength
CandidateFits(start, expectedBytes, byteLength) ==
  start >= 0 /\ start + expectedBytes <= byteLength

\* The candidates from the k-th on.  A read outside the buffer is the
\* RangeError DataView raises.
RECURSIVE ScanStarts(_, _, _, _, _)
ScanStarts(buf, littleEndian, totalPixels, starts, k) ==
  IF k > Len(starts)
  THEN [status |-> "raster", data |-> Zeros(totalPixels), path |-> "zeros"]
  ELSE LET start == starts[k]
           expectedBytes == totalPixels * 2
       IN IF CandidateFits(start, expectedBytes, Len(buf))
          THEN IF ~InBounds(buf, start, 2 * Min(100, totalPixels))
               THEN [status |-> "error", error |-> "RangeError"]
               ELSE IF Accepts(ValidSamples(buf, littleEndian, start, totalPixels))
               THEN IF ~InBounds(buf, start, expectedBytes)
                    THEN [status |-> "error", error |-> "RangeError"]
                    ELSE [status |-> "raster",
                          data |-> [i \in 1..totalPixels |->
                                      getInt16(buf, start + (i - 1) * 2, littleEndian)],
                          path |-> "fallback"]
               ELSE ScanStarts(buf, littleEndian, totalPixels, starts, k + 1)
          ELSE ScanStarts(buf, littleEndian, totalPixels, starts, k + 1)

extractFallback(buf, w, h, littleEndian) ==
  ScanStarts(buf, littleEndian, w * h, PossibleStarts(buf, w * h * 2), 1)

----------------------------------------------------------------------------
(* parseTiffInt16ToFloat32: the strips                                     *)

\* stripByteCounts[s]; -1 stands for undefined (s past the end of the list).
ByteCountAt(ifd, s) ==
  IF s < Len(ifd.stripByteCounts) THEN ifd.stripByteCounts[s + 1] ELSE -1

\* The inner loop over the samples of a decompressed strip:
\* result[pixelIndex++] = stripView.getInt16(i * 2, littleEndian) / 10000.
RECURSIVE PutSamples(_, _, _, _, _)
PutSamples(stripData, littleEndian, i, acc, totalPixels) ==
  IF i < Len(stripData) \div 2 /\ acc.pixelIndex < totalPixels
  THEN PutSamples(stripData, littleEndian, i + 1,
                  [result |-> [acc.result EXCEPT ![acc.pixelIndex + 1] =
                                 getInt16(stripData, i * 2, littleEndian)],
                   pixelIndex |-> acc.pixelIndex + 1],
                  totalPixels)
  ELSE acc

\* The inner loop of the uncompressed branch.  A sample that does not lie
\* inside the buffer is skipped; since pos only grows, every later sample of
\* the strip is skipped too, and the loop is cut at the first one.
RECURSIVE PutRawSamples(_, _, _, _, _, _, _)
PutRawSamples(buf, littleEndian, offset, pixelCount, i, acc, totalPixels) ==
  LET pos == offset + i * 2
  IN IF i < pixelCount /\ acc.pixelIndex < totalPixels /\ pos + 2 <= Len(buf)
     THEN PutRawSamples(buf, littleEndian, offset, pixelCount, i + 1,
                        [result |-> [acc.result EXCEPT ![acc.pixelIndex + 1] =
                                       getInt16(buf, pos, littleEndian)],
                         pixelIndex |-> acc.pixelIndex + 1],
                        totalPixels)
     ELSE acc

\* byteCount = stripByteCounts[s] || (totalPixels * 2)
RawByteCount(ifd, s, totalPixels) ==
  IF ByteCountAt(ifd, s) <= 0 THEN totalPixels * 2 ELSE ByteCountAt(ifd, s)

\* A catch branch that leaves the write cursor where it was.
ZeroFill_NoAdvance(acc, expectedPixels, totalPixels) == acc

\* The catch branch of the Deflate loop: zeros for the strip's pixels.
ZeroFill(acc, expectedPixels, totalPixels) ==
  LET n == Min(expectedPixels, totalPixels - acc.pixelIndex)
  IN [result |-> [i \in 1..totalPixels |->
                    IF i > acc.pixelIndex /\ i <= acc.pixelIndex + n THEN 0
                    ELSE acc.result[i]],
      pixelIndex |-> acc.pixelIndex + n]

\* The body of the strip loop of each branch, for strip s.
LzwStrip(buf, littleEndian, ifd, s, acc, totalPixels) ==
  LET stripData ==
        \* an undefined byte count makes endPos NaN and the loop never runs
        IF ByteCountAt(ifd, s) < 0 THEN << >>
        ELSE decompressLZW(buf, ifd.stripOffsets[s + 1], ByteCountAt(ifd, s))
  IN PutSamples(stripData, littleEndian, 0, acc, totalPixels)

RawStrip(buf, littleEndian, ifd, s, acc, totalPixels) ==
  PutRawSamples(buf, littleEndian, ifd.stripOffsets[s + 1],
                RawByteCount(ifd, s, totalPixels) \div 2, 0, acc, totalPixels)

DeflateStrip(buf, littleEndian, ifd, s, acc, totalPixels, w) ==
  LET offset == ifd.stripOffsets[s + 1]
      \* slice(offset, offset + undefined) is slice(offset, NaN): empty
      compressedData == IF ByteCountAt(ifd, s) < 0 THEN << >>
                        ELSE Slice(buf, offset, offset + ByteCountAt(ifd, s))
      decompressed == decompressDeflate(compressedData)
  IN IF decompressed.ok
     THEN PutSamples(decompressed.out, littleEndian, 0, acc, totalPixels)
     ELSE ZeroFill(acc, ifd.rowsPerStrip * w, totalPixels)

\* for (s = 0; s < stripOffsets.length && pixelIndex < totalPixels; s++)
RECURSIVE Strips(_, _, _, _, _, _, _)
Strips(buf, littleEndian, ifd, s, acc, totalPixels, w) ==
  IF s < Len(ifd.stripOffsets) /\ acc.pixelIndex < totalPixels
  THEN Strips(buf, littleEndian, ifd, s + 1,
              CASE ifd.compression = 5 ->
                     LzwStrip(buf, littleEndian, ifd, s, acc, totalPixels)
                [] ifd.compression = 1 ->
                     RawStrip(buf, littleEndian, ifd, s, acc, totalPixels)
                [] OTHER ->
                     DeflateStrip(buf, littleEndian, ifd, s, acc, totalPixels, w),
              totalPixels, w)
  ELSE acc

\* pixelIndex < totalPixels * 0.5
TooFewPixels(pixelIndex, totalPixels) == 2 * pixelIndex < totalPixels

\* The branch on the compression code, after the IFD is read.
DecodeStrips(buf, littleEndian, ifd, w, h) ==
  LET totalPixels == w * h
      acc == Strips(buf, littleEndian, ifd, 0, NewRaster(totalPixels), totalPixels, w)
      done == [status |-> "raster", data |-> acc.result, path |-> "codec"]
  IN CASE ifd.compression = 5 -> done
       [] ifd.compression = 1 -> done
       [] ifd.compression = 8 \/ ifd.compression = 32946 ->
            IF TooFewPixels(acc.pixelIndex, totalPixels)
            THEN extractFallback(buf, w, h, littleEndian)
            ELSE done
       [] OTHER -> extractFallback(buf, w, h, littleEndian)

\* const littleEndian = (byte0 === 0x49 && byte1 === 0x49)
IsLittleEndian(byte0, byte1) == byte0 = 73 /\ byte1 = 73

\* The test that lets a header pass: byte0 !== 0x49 && byte0 !== 0x4D throws.
HeaderAccepted(byte0, byte1) == byte0 = 73 \/ byte0 = 77

\* A check that forgets the two bytes of the entry count.
IfdOffsetRejected_NoCount(ifdOffset, byteLength) == ifdOffset > byteLength

\* ifdOffset + 2 > buffer.byteLength throws.
IfdOffsetRejected(ifdOffset, byteLength) == ifdOffset + 2 > byteLength

\* The three checks made before the IFD is read, in the order they are
\* made: the message of the error thrown, or "none".
HeaderError(buf) ==
  IF Len(buf) < 8 THEN "Buffer too small for TIFF"
  ELSE IF ~HeaderAccepted(getUint8(buf, 0), getUint8(buf, 1))
  THEN "Invalid TIFF header"
  ELSE IF IfdOffsetRejected(
            getUint32(buf, 4, IsLittleEndian(getUint8(buf, 0), getUint8(buf, 1))),
            Len(buf))
  THEN "Invalid IFD offset"
  ELSE "none"

\* compression, stripOffsets, stripByteCounts and rowsPerStrip after the
\* loop over the IFD entries.
ReadIfd(buf, h) ==
  LET littleEndian == IsLittleEndian(getUint8(buf, 0), getUint8(buf, 1))
      ifdOffset == getUint32(buf, 4, littleEndian)
      numEntries == getUint16(buf, ifdOffset, littleEndian)
  IN ParseEntries(buf, littleEndian, ifdOffset, 0, numEntries, IfdInit(h))

\* The offset the header gives for the IFD.
IfdOffsetOf(buf) ==
  getUint32(buf, 4, IsLittleEndian(getUint8(buf, 0), getUint8(buf, 1)))

\* No read of the loop over the IFD entries raises.
IfdInBounds(buf) ==
  EntriesInBounds(buf, IfdOffsetOf(buf), 0,
                  getUint16(buf, IfdOffsetOf(buf),
                            IsLittleEndian(getUint8(buf, 0), getUint8(buf, 1))))

parseTiffInt16ToFloat32(buf, w, h) ==
  IF HeaderError(buf) # "none" THEN [status |-> "error", error |-> HeaderError(buf)]
  ELSE IF ~InBounds(buf, IfdOffsetOf(buf), 2)
  THEN [status |-> "error", error |-> "RangeError"]
  ELSE IF ~IfdInBounds(buf)
  THEN [status |-> "error", error |-> "RangeError"]
  ELSE DecodeStrips(buf, IsLittleEndian(getUint8(buf, 0), getUint8(buf, 1)),
                    ReadIfd(buf, h), w, h)

----------------------------------------------------------------------------
(* createBMP                                                               *)

\* Byte k (0 the lowest) of a 32-bit value written little-endian; a
\* negative value is written in two's complement.
LEByte(v, k) == (v \div (256 ^ k)) % 256

\* rgba[idx] stored into a Uint8Array: undefined is stored as 0.
RgbaAt(rgbaBuf, idx) == IF idx < Len(rgbaBuf) THEN rgbaBuf[idx + 1] ELSE 0

\* The source channel of the c-th byte of a pixel: B, G, R, A.
\* A writer that keeps the channels in RGBA order.
BmpChannel_NoSwap(c) == c

BmpChannel(c) == <<2, 1, 0, 3>>[c + 1]

\* The value of view.setInt32(22, ...): the height, negated for top-down.
BmpHeightField(h) == -h

createBMP(rgbaBuf, w, h) ==
  LET rowSize == ((w * 4 + 3) \div 4) * 4
      imageSize == rowSize * h
      fileSize == 54 + imageSize
      byteAt(p) ==
        CASE p = 0 -> 66
          [] p = 1 -> 77
          [] p >= 2 /\ p < 6 -> LEByte(fileSize, p - 2)
          [] p >= 10 /\ p < 14 -> LEByte(54, p - 10)
          [] p >= 14 /\ p < 18 -> LEByte(40, p - 14)
          [] p >= 18 /\ p < 22 -> LEByte(w, p - 18)
          [] p >= 22 /\ p < 26 -> LEByte(BmpHeightField(h), p - 22)
          [] p >= 26 /\ p < 28 -> LEByte(1, p - 26)
          [] p >= 28 /\ p < 30 -> LEByte(32, p - 28)
          [] p >= 30 /\ p < 34 -> LEByte(0, p - 30)
          [] p >= 34 /\ p < 38 -> LEByte(imageSize, p - 34)
          [] p >= 38 /\ p < 42 -> LEByte(2835, p - 38)
          [] p >= 42 /\ p < 46 -> LEByte(2835, p - 42)
          [] p >= 54 /\ p < 54 + 4 * w * h ->
               RgbaAt(rgbaBuf, ((p - 54) \div 4) * 4 + BmpChannel((p - 54) % 4))
          [] OTHER -> 0
  IN [k \in 1..fileSize |-> byteAt(k - 1)]

----------------------------------------------------------------------------
(* generateNdviMask                                                        *)

\* b04Data[i]: a read past the end of the array is undefined.
BandAt(data, i) ==
  IF i < Len(data) THEN [def |-> TRUE, v |-> data[i + 1]]
  ELSE [def |-> FALSE, v |-> 0]

\* A calculator that also divides when nir + red is 0.
NdviOf_ZeroDenominator(red, nir) ==
  IF red.def /\ nir.def /\ nir.v + red.v >= 0
  THEN [num |-> nir.v - red.v, den |-> nir.v + red.v]
  ELSE [num |-> 0, den |-> 1]

\* ndvi[i]: (nir - red) / (nir + red) when nir + red > 0, else 0.  The
\* quotient is kept as an exact fraction num / den; a den of 0 would be a
\* NaN or an infinity.  An undefined band value makes nir + red NaN, and
\* NaN > 0 is false.
NdviOf(red, nir) ==
  IF red.def /\ nir.def /\ nir.v + red.v > 0
  THEN [num |-> nir.v - red.v, den |-> nir.v + red.v]
  ELSE [num |-> 0, den |-> 1]

\* val > tNum / tDen and val < tNum / tDen for a positive tDen.
Above(val, tNum, tDen) == val.num * tDen > tNum * val.den

Below(val, tNum, tDen) == val.num * tDen < tNum * val.den

\* A classifier that scans the thresholds from the lowest up.
Colour_LowestFirst(val) ==
  IF Above(val, 0, 10) THEN <<210, 180, 140, 120>>
  ELSE IF Above(val, 2, 10) THEN <<144, 238, 144, 150>>
  ELSE IF Above(val, 4, 10) THEN <<34, 139, 34, 180>>
  ELSE IF Above(val, 6, 10) THEN <<0, 128, 0, 200>>
  ELSE <<65, 105, 225, IF Below(val, -1, 10) THEN 150 ELSE 50>>

\* The four bytes written for a pixel of index val.
Colour(val) ==
  IF Above(val, 6, 10) THEN <<0, 128, 0, 200>>
  ELSE IF Above(val, 4, 10) THEN <<34, 139, 34, 180>>
  ELSE IF Above(val, 2, 10) THEN <<144, 238, 144, 150>>
  ELSE IF Above(val, 0, 10) THEN <<210, 180, 140, 120>>
  ELSE <<65, 105, 225, IF Below(val, -1, 10) THEN 150 ELSE 50>>

\* btoa(String.fromCharCode(...bytes)): the base64 digits as numbers 0..63,
\* with 64 for the padding sign.
Base64(bytes) ==
  LET n == Len(bytes)
      at(k) == IF k <= n THEN bytes[k] ELSE 0
      digit(g, j) ==
        LET b0 == at(3 * g + 1)
            b1 == at(3 * g + 2)
            b2 == at(3 * g + 3)
        IN CASE j = 0 -> b0 \div 4
             [] j = 1 -> (b0 % 4) * 16 + b1 \div 16
             [] j = 2 -> IF 3 * g + 2 > n THEN 64 ELSE (b1 % 16) * 4 + b2 \div 64
             [] j = 3 -> IF 3 * g + 3 > n THEN 64 ELSE b2 % 64
  IN [k \in 1..(4 * ((n + 2) \div 3)) |-> digit((k - 1) \div 4, (k - 1) % 4)]

\* A count of everything above the sparse-vegetation threshold.
IsForest_AboveSparse(val) == Above(val, 2, 10)

\* ndvi[i] > 0.3, the test that counts a pixel as forest.
IsForest(val) == Above(val, 3, 10)

generateNdviMask(b04, b08, w, h) ==
  LET ndvi == [i \in 1..(w * h) |-> NdviOf(BandAt(b04, i - 1), BandAt(b08, i - 1))]
      forestPixels == Cardinality({i \in 1..(w * h) : IsForest(ndvi[i])})
      rgbaBuf == [k \in 1..(w * h * 4) |-> Colour(ndvi[(k + 3) \div 4])[((k - 1) % 4) + 1]]
      bmpData == createBMP(rgbaBuf, w, h)
  IN [status |-> "returned",
      ndvi |-> ndvi,
      rgba |-> rgbaBuf,
      bmp |-> bmpData,
      maskDataUrl |-> [mime |-> "image/bmp", base64 |-> Base64(bmpData)],
      forestPercentage |-> [num |-> forestPixels * 100, den |-> w * h]]

----------------------------------------------------------------------------
(* A reference LZW encoder for the decoder's code-size growth rule         *)

\* The encoder's variables before the first byte: its string table (from
\* prefix code * 256 + byte to code), the code of the string matched so
\* far (-1 for none), the next code it assigns, the next code and the code
\* size of a decoder that has read the codes written so far, whether that
\* decoder has a previous code, and the bit packer.
EncStart ==
  [table |-> << >>, w |-> -1, nextCode |-> 258, decNext |-> 258, decSize |-> 9,
   decHasOld |-> FALSE, acc |-> 0, bits |-> 0, out |-> << >>]

\* The size of the next code given the next code the decoder assigns: one
\* bit more once that code no longer fits, up to 12 bits.
EncCodeSize(decNext, decSize) ==
  IF decNext >= 2 ^ decSize /\ decSize < 12 THEN decSize + 1 ELSE decSize

\* Whole bytes are moved from the bit accumulator to the output.
RECURSIVE Drain(_)
Drain(e) ==
  IF e.bits >= 8
  THEN Drain([e EXCEPT !.out = @ \o <<e.acc \div (2 ^ (e.bits - 8))>>,
                       !.acc = @ % (2 ^ (e.bits - 8)),
                       !.bits = @ - 8])
  ELSE e

\* A code is written most-significant-bit first with the size the decoder
\* reads it with, and the decoder's counters are advanced as its loop
\* advances them.
PutCode(e, code) ==
  LET packed == Drain([e EXCEPT !.acc = @ * (2 ^ e.decSize) + code,
                                !.bits = @ + e.decSize])
      adds == e.decHasOld /\ e.decNext < 4096
  IN IF code = 256
     THEN [packed EXCEPT !.decNext = 258, !.decSize = 9, !.decHasOld = FALSE]
     ELSE [packed EXCEPT
             !.decNext = IF adds THEN @ + 1 ELSE @,
             !.decSize = IF adds THEN EncCodeSize(e.decNext + 1, @) ELSE @,
             !.decHasOld = TRUE]

\* The encoder takes the byte c.  With clearWhenFull it writes a clear code
\* and starts a new table when it has assigned code 4095.
EncByte(e, c, clearWhenFull) ==
  IF e.w = -1 THEN [e EXCEPT !.w = c]
  ELSE LET key == e.w * 256 + c
       IN IF key \in DOMAIN e.table THEN [e EXCEPT !.w = e.table[key]]
          ELSE LET p == PutCode(e, e.w)
               IN IF e.nextCode >= 4096 THEN [p EXCEPT !.w = c]
                  ELSE IF e.nextCode = 4095 /\ clearWhenFull
                  THEN [PutCode(p, 256) EXCEPT !.table = << >>, !.nextCode = 258,
                                               !.w = c]
                  ELSE [p EXCEPT !.table = (key :> e.nextCode) @@ @,
                                 !.nextCode = @ + 1, !.w = c]

\* The end of the input: the pending code, the end-of-information code,
\* and zero bits up to the next byte boundary.
EncFinish(e) ==
  LET last == IF e.w = -1 THEN e ELSE PutCode(e, e.w)
      eoi == PutCode(last, 257)
  IN IF eoi.bits = 0 THEN eoi
     ELSE Drain([eoi EXCEPT !.acc = @ * (2 ^ (8 - eoi.bits)), !.bits = 8])

\* The stream for a whole byte sequence, opened with a clear code.
RECURSIVE EncBytes(_, _, _)
EncBytes(e, bytes, i) ==
  IF i > Len(bytes) THEN e ELSE EncBytes(EncByte(e, bytes[i], FALSE), bytes, i + 1)

LzwEncode(bytes) == EncFinish(EncBytes(PutCode(EncStart, 256), bytes, 1)).out

----------------------------------------------------------------------------
(* Synthetic TIFF buffers: the inputs of the decode                        *)

\* Largest declared width and height of the rasters that are enumerated.
MaxSide == 2

\* Largest IFD offset, relative to the buffer end, that is written into the
\* header of a buffer with a displaced IFD offset.
MaxPastEnd == 1

U16(v, littleEndian) ==
  IF littleEndian THEN <<v % 256, v \div 256>> ELSE <<v \div 256, v % 256>>

U32(v, littleEndian) ==
  IF littleEndian
  THEN <<v % 256, (v \div 256) % 256, (v \div 65536) % 256, v \div 16777216>>
  ELSE <<v \div 16777216, (v \div 65536) % 256, (v \div 256) % 256, v % 256>>

\* The two bytes of a signed 16-bit sample.
Int16Bytes(int16Val, littleEndian) == U16(int16Val % 65536, littleEndian)

SampleBytes(samples, littleEndian) ==
  [k \in 1..(2 * Len(samples)) |->
     Int16Bytes(samples[(k + 1) \div 2], littleEndian)[2 - (k % 2)]]

RECURSIVE Flatten(_)
Flatten(seqs) ==
  IF seqs = << >> THEN << >> ELSE Head(seqs) \o Flatten(Tail(seqs))

\* A Deflate stream of one final stored block holding bytes.
StoredBlock(bytes) ==
  <<1>> \o U16(Len(bytes), TRUE) \o U16(65535 - Len(bytes), TRUE) \o bytes

\* The same stream in a zlib frame.
ZlibFrame(bytes) == <<120, 1>> \o StoredBlock(bytes) \o AdlerBytes(bytes)

\* The sample values the synthetic rasters are made of.
SampleValues == <<1, -2, 258, -32768, 32767, 0>>

\* n samples: SampleValues from the seed-th on, cyclically.
Pattern(seed, n) ==
  [i \in 1..n |-> SampleValues[((seed + i - 1) % Len(SampleValues)) + 1]]

\* The bytes of a strip holding the given samples under a framing.
Payload(framing, samples, littleEndian) ==
  LET bytes == SampleBytes(samples, littleEndian)
  IN CASE framing = "none" -> bytes
       [] framing = "raw" -> StoredBlock(bytes)
       [] framing = "zlib" -> ZlibFrame(bytes)
       [] framing = "junk" -> <<7>> \o bytes
       [] framing = "lzw" -> LzwEncode(bytes)

\* A 12-byte IFD entry whose value is held inline.
Entry(tag, ftype, count, value, littleEndian) ==
  U16(tag, littleEndian) \o U16(ftype, littleEndian) \o U32(count, littleEndian)
    \o (IF ftype = 3 THEN U16(value, littleEndian) \o <<0, 0>>
        ELSE U32(value, littleEndian))

\* Offsets of consecutive payloads laid out from offset first on.
RECURSIVE Offsets(_, _)
Offsets(payloads, first) ==
  IF payloads = << >> THEN << >>
  ELSE <<first>> \o Offsets(Tail(payloads), first + Len(Head(payloads)))

\* The buffer a description g stands for: header, IFD at offset 8, the
\* strip arrays when there is more than one strip, g.gap filler bytes that
\* read as implausible samples, the strips (strip g.bad, if any, spoiled by
\* a leading byte), g.trail zero bytes; then the header's IFD offset is
\* displaced and the buffer truncated as g says.
Build(g) ==
  LET le == g.le
      n == Len(g.strips)
      payloads == [k \in 1..n |->
                     Payload(IF k = g.bad THEN "junk" ELSE g.framing, g.strips[k], le)]
      numEntries == 2 + (IF g.compTag THEN 1 ELSE 0) + (IF g.counts THEN 1 ELSE 0)
      ifdEnd == 8 + 2 + 12 * numEntries + 4
      dataAt == (IF n = 1 THEN ifdEnd ELSE ifdEnd + 8 * n) + g.gap
      offsets == Offsets(payloads, dataAt)
      offsetsEntry == IF n = 1 THEN Entry(273, g.ftype, 1, offsets[1], le)
                      ELSE Entry(273, 4, n, ifdEnd, le)
      countsEntry == IF n = 1 THEN Entry(279, g.ftype, 1, Len(payloads[1]), le)
                     ELSE Entry(279, 4, n, ifdEnd + 4 * n, le)
      arrays == IF n = 1 THEN << >>
                ELSE Flatten([k \in 1..n |-> U32(offsets[k], le)])
                       \o Flatten([k \in 1..n |-> U32(Len(payloads[k]), le)])
      body == U16(numEntries, le)
                \o (IF g.compTag THEN Entry(259, g.ftype, 1, g.comp, le) ELSE << >>)
                \o offsetsEntry
                \o Entry(278, g.ftype, 1, g.rows, le)
                \o (IF g.counts THEN countsEntry ELSE << >>)
                \o <<0, 0, 0, 0>>
                \o arrays
                \o [i \in 1..g.gap |-> 127]
                \o Flatten(payloads)
                \o [i \in 1..g.trail |-> 0]
      full == 8 + Len(body)
      kept == IF g.keep < 0 THEN full ELSE Min(g.keep, full)
      ifdField == IF g.ifdAt = 0 THEN 8 ELSE kept + g.ifdAt - 3
  IN SubSeq(g.mark \o U16(42, le) \o U32(Max(ifdField, 0), le) \o body, 1, kept)

\* Byte-order marks: II, MM, and pairs that are neither.
GoodMark(le) == IF le THEN <<73, 73>> ELSE <<77, 77>>

Marks == {<<73, 73>>, <<77, 77>>, <<73, 77>>, <<77, 73>>, <<73, 0>>, <<77, 0>>,
          <<0, 0>>, <<0, 73>>, <<42, 42>>}

\* Compression code, tag present or not, and the framing of the strips.
Codings ==
  {[compTag |-> FALSE, comp |-> 1, framing |-> "none"],
   [compTag |-> TRUE, comp |-> 1, framing |-> "none"],
   [compTag |-> TRUE, comp |-> 8, framing |-> "raw"],
   [compTag |-> TRUE, comp |-> 8, framing |-> "zlib"],
   [compTag |-> TRUE, comp |-> 32946, framing |-> "zlib"],
   [compTag |-> TRUE, comp |-> 32946, framing |-> "raw"],
   [compTag |-> TRUE, comp |-> 8, framing |-> "junk"],
   [compTag |-> TRUE, comp |-> 5, framing |-> "lzw"],
   [compTag |-> TRUE, comp |-> 5, framing |-> "none"],
   [compTag |-> TRUE, comp |-> 7, framing |-> "none"],
   [compTag |-> TRUE, comp |-> 50000, framing |-> "zlib"]}

\* The samples split into one strip, or into two at the given row.
SplitStrips(samples, nStrips, w) ==
  IF nStrips = 1 THEN <<samples>>
  ELSE <<SubSeq(samples, 1, Min(w, Len(samples))),
         SubSeq(samples, Min(w, Len(samples)) + 1, Len(samples))>>

\* Well-headed buffers: every coding, one or two strips, strips holding
\* from no sample to one more than width x height.
AllMainInputs ==
  {[mark |-> GoodMark(le), le |-> le, compTag |-> c.compTag, comp |-> c.comp,
    framing |-> c.framing, ftype |-> ftype, counts |-> counts,
    rows |-> IF nStrips = 1 THEN d[2] ELSE 1,
    strips |-> SplitStrips(Pattern(seed, nSamp), nStrips, d[1]),
    samples |-> Pattern(seed, nSamp),
    keep |-> -1, ifdAt |-> 0, w |-> d[1], h |-> d[2],
    bad |-> 0, gap |-> 0, trail |-> 0] :
     le \in BOOLEAN, c \in Codings, ftype \in {3, 4}, counts \in BOOLEAN,
     nStrips \in 1..2, d \in (1..MaxSide) \X (1..MaxSide),
     seed \in 0..(Len(SampleValues) - 1),
     nSamp \in 0..(MaxSide * MaxSide + 1)}

MainInputs == {g \in AllMainInputs : Len(g.samples) <= g.w * g.h + 1}

\* Uncompressed single-strip buffers with every byte-order mark, truncated
\* to a few lengths, and with the header's IFD offset near the buffer end.
HeaderInputs ==
  {[mark |-> mark, le |-> le, compTag |-> TRUE, comp |-> comp,
    framing |-> "none", ftype |-> 3, counts |-> TRUE, rows |-> 1,
    strips |-> <<Pattern(seed, 2)>>, samples |-> Pattern(seed, 2),
    keep |-> keep, ifdAt |-> ifdAt, w |-> 2, h |-> 1,
    bad |-> 0, gap |-> 0, trail |-> 0] :
     mark \in Marks, le \in BOOLEAN, seed \in {0, 2}, comp \in {1, 7},
     keep \in {-1, 0, 1, 7, 8, 9, 10, 22},
     ifdAt \in 0..(3 + MaxPastEnd)}

\* Side of the square rasters given to the fallback scan, which looks at
\* the first 100 samples of a candidate.
ScanSide == 10

\* n samples within [-10000, 20000], the range the scan finds plausible.
PlausiblePattern(seed, n) ==
  [i \in 1..n |-> <<1, -2, 258, 0, 20000, -10000>>[((seed + i - 1) % 6) + 1]]

\* n plausible samples, but for the first nBad, which are 32767.
ScanSamples(nBad, n) ==
  [i \in 1..n |-> IF i <= nBad THEN 32767 ELSE PlausiblePattern(0, n)[i]]

\* Filler before and zero bytes after the strip: none; the strip at offset
\* 256; the same with bytes after it; the strip at offset 512.
ScanShapes == {<<0, 0>>, <<194, 0>>, <<194, 40>>, <<450, 0>>}

\* Compression codes the parser does not know, and Deflate strips that
\* neither framing accepts.
ScanCodings ==
  {[comp |-> 7, framing |-> "none"], [comp |-> 50000, framing |-> "none"],
   [comp |-> 8, framing |-> "junk"]}

\* Well-headed single-strip buffers of ScanSide x ScanSide samples, of
\* which the first 0, 19, 20 or 21 are implausible, or a third throughout.
ScanInputs ==
  {[mark |-> GoodMark(le), le |-> le, compTag |-> TRUE, comp |-> c.comp,
    framing |-> c.framing, ftype |-> 3, counts |-> TRUE, rows |-> ScanSide,
    strips |-> <<samples>>, samples |-> samples,
    keep |-> -1, ifdAt |-> 0, w |-> ScanSide, h |-> ScanSide,
    bad |-> 0, gap |-> shape[1], trail |-> shape[2]] :
     le \in BOOLEAN, c \in ScanCodings, shape \in ScanShapes,
     samples \in {ScanSamples(nBad, ScanSide * ScanSide) : nBad \in {0, 19, 20, 21}}
                   \cup {Pattern(0, ScanSide * ScanSide)}}

\* Two-strip Deflate buffers in which one strip is a stream that neither
\* framing accepts: those of MainInputs, and rasters one pixel wide and
\* MaxSide + 1 high whose two strips of one row leave the last rows out.
MixedInputs ==
  LET twoStrips == {m \in MainInputs : /\ m.comp \in {8, 32946}
                                       /\ m.framing \in {"raw", "zlib"}
                                       /\ Len(m.strips) = 2}
      tall == {[mark |-> GoodMark(le), le |-> le, compTag |-> TRUE, comp |-> 8,
                framing |-> framing, ftype |-> 3, counts |-> TRUE, rows |-> 1,
                strips |-> SplitStrips(Pattern(seed, nSamp), 2, 1),
                samples |-> Pattern(seed, nSamp),
                keep |-> -1, ifdAt |-> 0, w |-> 1, h |-> MaxSide + 1,
                bad |-> 0, gap |-> 0, trail |-> 0] :
                 le \in BOOLEAN, framing \in {"raw", "zlib"}, seed \in {0, 3},
                 nSamp \in 0..(MaxSide + 1)}
  IN UNION {{[g EXCEPT !.bad = b] : b \in 1..2} : g \in twoStrips \cup tall}

\* The families of buffers the decode is run on.
TiffInputs == <<MainInputs, HeaderInputs, ScanInputs, MixedInputs>>

----------------------------------------------------------------------------
(* The decode of one band                                                  *)

Pending == [status |-> "pending"]

\* No band is being decoded.
TiffIdle == buffer = << >> /\ src = << >> /\ decoded = Pending

\* No mask is being made.
MaskIdle ==
  /\ job = "none"
  /\ b04Data = << >>
  /\ b08Data = << >>
  /\ mask = Pending
  /\ rgba = << >>
  /\ bmp = Pending

\* No LZW stream is being written or read.
LzwIdle == lzwIn = << >> /\ lzwEnc = << >> /\ lzwDec = << >> /\ lzwPhase = "idle"

\* decompressDeflate is not running on its own.
InflateIdle == inflate = << >>

\* No request is being handled.
HandlerIdle == bandTasks = << >> /\ settled = << >> /\ bandDataMap = << >>

\* No component of the page is mounted.
UiIdle == hook = << >> /\ panel = << >>

InitTiff ==
  /\ \E family \in 1..Len(TiffInputs) : src \in TiffInputs[family]
  /\ buffer = Build(src)
  /\ width = src.w
  /\ height = src.h
  /\ decoded = Pending
  /\ MaskIdle
  /\ LzwIdle
  /\ InflateIdle
  /\ HandlerIdle
  /\ UiIdle

\* fetchBandData's last step: the response body handed to the parser.
Decode ==
  /\ decoded = Pending
  /\ src # << >>
  /\ decoded' = parseTiffInt16ToFloat32(buffer, width, height)
  /\ UNCHANGED <<uiVars, inflate, handlerVars, buffer, width, height, src, maskVars, lzwVars>>

NextTiff == Decode

SpecTiff == InitTiff /\ [][NextTiff]_vars

----------------------------------------------------------------------------
(* Properties of the decode                                                *)

\* The buffer is one of the well-headed, untruncated synthetic TIFFs in
\* which no strip is spoiled.
WellFormed ==
  src.mark = GoodMark(src.le) /\ src.keep < 0 /\ src.ifdAt = 0 /\ src.bad = 0

\* C1: a single-strip TIFF with compression 1, in either byte order, whose
\* strip holds width x height signed 16-bit samples s_i decodes to the
\* raster with output[i] = s_i / 10000 for every i, in order, signs kept.
C1_UncompressedRoundTrip ==
  (/\ decoded # Pending
   /\ WellFormed
   /\ src.comp = 1
   /\ Len(src.strips) = 1
   /\ Len(src.samples) = width * height)
  => /\ decoded.status = "raster"
     /\ decoded.data = src.samples

\* A big-endian 2 x 2 raster with a negative first sample has been decoded.
C1_Witness ==
  /\ decoded # Pending
  /\ WellFormed
  /\ src.comp = 1
  /\ Len(src.strips) = 1
  /\ ~src.le
  /\ width * height = 4
  /\ Len(src.samples) = 4
  /\ src.samples[1] = -2
  /\ src.samples[2] = 258
  /\ decoded.status = "raster"
  /\ decoded.data = src.samples

\* The same samples in an uncompressed TIFF of the same layout.
UncompressedTwin == Build([src EXCEPT !.compTag = TRUE, !.comp = 1, !.framing = "none"])

\* The TIFF is Deflate-coded and every strip is a stream the adapter accepts.
DeflateAccepted ==
  /\ WellFormed
  /\ src.compTag
  /\ src.comp \in {8, 32946}
  /\ src.framing \in {"raw", "zlib"}
  /\ src.counts

\* C3 as stated: a Deflate-coded TIFF whose strips are accepted decodes to
\* the raster the uncompressed path gives for the same sample bytes.
C3_DeflateEqualsUncompressed ==
  (decoded # Pending /\ DeflateAccepted)
  => /\ decoded.status = "raster"
     /\ decoded.data = parseTiffInt16ToFloat32(UncompressedTwin, width, height).data

\* The samples the strips hold, cut at width x height.
SamplesKept == Min(Len(src.samples), width * height)

\* C3 amended: the same, for strips that are not empty and that together
\* hold at least half of the width x height samples.
C3_DeflateEqualsUncompressedFromHalf ==
  (/\ decoded # Pending
   /\ DeflateAccepted
   /\ \A k \in 1..Len(src.strips) : Len(src.strips[k]) > 0
   /\ 2 * SamplesKept >= width * height)
  => /\ decoded.status = "raster"
     /\ decoded.path = "codec"
     /\ decoded.data = parseTiffInt16ToFloat32(UncompressedTwin, width, height).data
     /\ \A i \in 1..(width * height) :
          decoded.data[i] = IF i <= SamplesKept THEN src.samples[i] ELSE 0

\* A zlib-framed two-strip 2 x 2 raster has been decoded through the codec.
C3_Witness ==
  /\ decoded # Pending
  /\ DeflateAccepted
  /\ src.framing = "zlib"
  /\ Len(src.strips) = 2
  /\ Len(src.samples) = 4
  /\ width * height = 4
  /\ src.samples[1] = -32768
  /\ decoded.status = "raster"
  /\ decoded.data = src.samples

\* C4: a buffer that passes the header checks and carries a compression
\* code other than 1, 5, 8 and 32946 never makes the decode throw; the
\* decode returns a raster of exactly width x height values.
C4_FallbackNeverThrows ==
  (/\ decoded # Pending
   /\ HeaderError(buffer) = "none"
   /\ ReadIfd(buffer, height).compression \notin {1, 5, 8, 32946})
  => /\ decoded.status = "raster"
     /\ Len(decoded.data) = width * height

\* A buffer with compression code 7 has been decoded by the fallback scan,
\* which accepted a candidate offset.
C4_Witness ==
  /\ decoded # Pending
  /\ HeaderError(buffer) = "none"
  /\ ReadIfd(buffer, height).compression = 7
  /\ src.mark = GoodMark(src.le)
  /\ decoded.status = "raster"
  /\ decoded.path = "fallback"
  /\ Len(decoded.data) = width * height

\* C9 as stated: II selects little-endian, MM big-endian, and every other
\* pair of first bytes is rejected as a malformed header.
C9_OnlyIIorMMAccepted ==
  (/\ decoded # Pending
   /\ Len(buffer) >= 8
   /\ SubSeq(buffer, 1, 2) \notin {<<73, 73>>, <<77, 77>>})
  => /\ decoded.status = "error"
     /\ decoded.error = "Invalid TIFF header"

\* C10: a buffer shorter than 8 bytes, or one whose IFD offset leaves no
\* room for the entry count inside the buffer, is a thrown parse error and
\* no raster is returned.
C10_FatalParseErrors ==
  /\ (decoded # Pending /\ Len(buffer) < 8)
       => /\ decoded.status = "error"
          /\ decoded.error = "Buffer too small for TIFF"
  /\ (/\ decoded # Pending
      /\ Len(buffer) >= 8
      /\ IfdOffsetOf(buffer) + 2 > Len(buffer))
       => /\ decoded.status = "error"
          /\ decoded.error \in {"Invalid TIFF header", "Invalid IFD offset"}

\* An IFD offset that points at the last byte of the buffer has been refused.
C10_Witness ==
  /\ decoded # Pending
  /\ Len(buffer) >= 8
  /\ src.mark = GoodMark(src.le)
  /\ IfdOffsetOf(buffer) = Len(buffer) - 1
  /\ decoded.status = "error"
  /\ decoded.error = "Invalid IFD offset"

\* The raster and the write cursor the strip loop ends with.
CodecRun ==
  Strips(buffer, IsLittleEndian(getUint8(buffer, 0), getUint8(buffer, 1)),
         ReadIfd(buffer, height), 0, NewRaster(width * height), width * height, width)

\* The strips are coded as the compression tag says and their byte counts
\* are given.
CodedAsTagged ==
  /\ WellFormed
  /\ src.counts
  /\ \/ src.comp = 1 /\ src.framing = "none"
     \/ src.comp = 5 /\ src.framing = "lzw"
     \/ src.comp \in {8, 32946} /\ src.framing \in {"raw", "zlib"}

\* C11: a decode that passes the header checks returns a raster of exactly
\* width x height entries on every path and raises no error; the positions
\* past the last sample written hold 0, and when the strips of a buffer
\* hold fewer samples than width x height the codec's raster is these
\* samples followed by zeros.
C11_ExactSizeZeroFilled ==
  (decoded # Pending /\ HeaderError(buffer) = "none")
  => /\ decoded.status = "raster"
     /\ Len(decoded.data) = width * height
     /\ decoded.path = "zeros" => decoded.data = Zeros(width * height)
     /\ decoded.path = "codec" =>
          /\ \A i \in (CodecRun.pixelIndex + 1)..(width * height) : decoded.data[i] = 0
          /\ CodedAsTagged =>
               \A i \in 1..(width * height) :
                 decoded.data[i] = IF i <= SamplesKept THEN src.samples[i] ELSE 0

\* An LZW-coded 2 x 2 raster whose strip holds three samples has been
\* decoded: three samples and a zero.
C11_Witness ==
  /\ decoded # Pending
  /\ CodedAsTagged
  /\ src.comp = 5
  /\ width * height = 4
  /\ Len(src.samples) = 3
  /\ decoded.status = "raster"
  /\ decoded.data = <<-2, 258, -32768, 0>>

\* C12 as stated: when the strip loop of an LZW or Deflate decode ends with
\* fewer than half of the width x height pixels, the raster returned is
\* the one extractFallback gives for the buffer.
C12_UnderHalfUsesFallback ==
  (/\ decoded # Pending
   /\ HeaderError(buffer) = "none"
   /\ ReadIfd(buffer, height).compression \in {5, 8, 32946}
   /\ TooFewPixels(CodecRun.pixelIndex, width * height))
  => /\ decoded.status = "raster"
     /\ decoded.data =
          extractFallback(buffer, width, height,
                          IsLittleEndian(getUint8(buffer, 0), getUint8(buffer, 1))).data

\* The bytes of strip s (from 0) as the Deflate branch slices them.
StripBytes(s) ==
  LET ifd == ReadIfd(buffer, height)
  IN IF ByteCountAt(ifd, s) < 0 THEN << >>
     ELSE Slice(buffer, ifd.stripOffsets[s + 1],
                ifd.stripOffsets[s + 1] + ByteCountAt(ifd, s))

\* The buffer is Deflate-coded with a single strip, which neither framing
\* accepts.
OnlyStripRejected ==
  /\ HeaderError(buffer) = "none"
  /\ ReadIfd(buffer, height).compression \in {8, 32946}
  /\ Len(ReadIfd(buffer, height).stripOffsets) = 1
  /\ ~decompressDeflate(StripBytes(0)).ok

\* C13 as stated, for the input with a single strip covering the whole
\* image: when neither framing accepts the strip, the decode returns what
\* extractFallback gives for the buffer.
C13_RejectedStripUsesFallback ==
  (decoded # Pending /\ OnlyStripRejected)
  => /\ decoded.status = "raster"
     /\ decoded.data =
          extractFallback(buffer, width, height,
                          IsLittleEndian(getUint8(buffer, 0), getUint8(buffer, 1))).data

\* Neither framing accepts strip k (from 1) of the buffer as it was built.
StripSpoiled(k) == k = src.bad \/ src.framing = "junk"

\* A Deflate-coded buffer, whole, with byte counts, in which some strip is
\* spoiled.
DeflateWithSpoiledStrip ==
  /\ src.mark = GoodMark(src.le) /\ src.keep < 0 /\ src.ifdAt = 0
  /\ src.compTag /\ src.comp \in {8, 32946} /\ src.counts
  /\ src.framing \in {"raw", "zlib", "junk"}
  /\ \E k \in 1..Len(src.strips) : StripSpoiled(k)

\* What the strips from the k-th on add to the pixels written so far: the
\* samples of a strip that inflates, rowsPerStrip x width zeros for one
\* that does not, until width x height pixels are written.
RECURSIVE PixelsFrom(_, _)
PixelsFrom(k, out) ==
  IF k > Len(src.strips) \/ Len(out) >= width * height THEN out
  ELSE PixelsFrom(k + 1,
                  out \o (IF StripSpoiled(k) THEN Zeros(src.rows * width)
                          ELSE src.strips[k]))

UnknownCompression ==
  /\ HeaderError(buffer) = "none"
  /\ ReadIfd(buffer, height).compression \notin {1, 5, 8, 32946}

\* The number of plausible values among the first 100 at candidate k, or
\* -1 when the payload does not fit there.
PlausibleAt(k) ==
  LET start == PossibleStarts(buffer, 2 * width * height)[k]
  IN IF start >= 0 /\ start + 2 * width * height <= Len(buffer)
     THEN ValidSamples(buffer, IsLittleEndian(getUint8(buffer, 0), getUint8(buffer, 1)),
                       start, width * height)
     ELSE -1

\* C16 as stated: extractFallback accepts a candidate offset if and only if
\* at least 80 of the first 100 values there are plausible, so it returns
\* extracted samples exactly when some candidate has 80 or more.
C16_AcceptsAtLeast80 ==
  (decoded # Pending /\ UnknownCompression)
  => /\ decoded.status = "raster"
     /\ decoded.path = "fallback" <=> \E k \in 1..4 : PlausibleAt(k) >= 80

\* The offsets C17 names, in its order.
ClaimedStarts == <<8, 256, 512, Len(buffer) - 2 * width * height>>

\* The candidates of ClaimedStarts whose payload fits inside the buffer and
\* which the acceptance test passes.
AcceptedCandidates ==
  {k \in 1..4 :
     /\ ClaimedStarts[k] >= 0
     /\ ClaimedStarts[k] + 2 * width * height <= Len(buffer)
     /\ Accepts(ValidSamples(buffer,
                             IsLittleEndian(getUint8(buffer, 0), getUint8(buffer, 1)),
                             ClaimedStarts[k], width * height))}

FirstAccepted == CHOOSE k \in AcceptedCandidates : \A j \in AcceptedCandidates : k <= j

\* C17: extractFallback tries 8, 256, 512 and the buffer length minus
\* 2 x width x height in this order, passing over a candidate whose payload
\* does not fit; the first accepted candidate alone gives the raster,
\* output[i] being the signed 16-bit value at start + 2i; with no accepted
\* candidate the raster is all zero; no error is raised.
C17_FirstAcceptedCandidate ==
  (decoded # Pending /\ UnknownCompression)
  => /\ decoded.status = "raster"
     /\ AcceptedCandidates = {} => decoded.data = Zeros(width * height)
     /\ AcceptedCandidates # {} =>
          \A i \in 1..(width * height) :
            decoded.data[i] =
              getInt16(buffer, ClaimedStarts[FirstAccepted] + 2 * (i - 1),
                       IsLittleEndian(getUint8(buffer, 0), getUint8(buffer, 1)))

\* A raster has been extracted at offset 256 from a buffer in which the
\* end-aligned offset, 296, was acceptable too and offset 8 was not.
C17_Witness ==
  /\ decoded # Pending
  /\ UnknownCompression
  /\ AcceptedCandidates = {2, 4}
  /\ ClaimedStarts[4] = 296
  /\ decoded.status = "raster"
  /\ decoded.data = src.samples
  /\ decoded.data[1] # getInt16(buffer, 296, IsLittleEndian(getUint8(buffer, 0),
                                                            getUint8(buffer, 1)))

----------------------------------------------------------------------------
(* The mask stage                                                          *)

\* The band values the synthetic bands are made of, in units of 1/10000.
BandValues == <<1000, 5000, 0, -2, 2999, 7001, 3000>>

\* n band values: BandValues from the seed-th on, cyclically.
Band(seed, n) ==
  [i \in 1..n |-> BandValues[((seed + i - 1) % Len(BandValues)) + 1]]

\* Number of pixel buffers enumerated for createBMP per size.
MaxRgbaSeed == 7

\* A pixel buffer of n bytes whose neighbouring bytes all differ.
RgbaPattern(seed, n) == [k \in 1..n |-> (seed * 37 + k * 59) % 256]

InitMask ==
  /\ TiffIdle
  /\ LzwIdle
  /\ InflateIdle
  /\ HandlerIdle
  /\ UiIdle
  /\ width \in 1..MaxSide
  /\ height \in 1..MaxSide
  /\ mask = Pending
  /\ bmp = Pending
  /\ \/ /\ job = "generateNdviMask"
        /\ rgba = << >>
        /\ \E seedRed \in 0..(Len(BandValues) - 1), seedNir \in 0..(Len(BandValues) - 1),
              n04 \in 0..(MaxSide * MaxSide + 1), n08 \in 0..(MaxSide * MaxSide + 1) :
             /\ n04 <= width * height + 1
             /\ n08 <= width * height + 1
             /\ b04Data = Band(seedRed, n04)
             /\ b08Data = Band(seedNir, n08)
     \/ /\ job = "createBMP"
        /\ b04Data = << >>
        /\ b08Data = << >>
        /\ \E seed \in 0..MaxRgbaSeed : rgba = RgbaPattern(seed, 4 * width * height)

\* The handler's call of generateNdviMask on two bands.
GenerateMask ==
  /\ job = "generateNdviMask"
  /\ mask = Pending
  /\ mask' = generateNdviMask(b04Data, b08Data, width, height)
  /\ UNCHANGED <<uiVars, inflate, handlerVars, width, height, tiffVars, lzwVars, job, b04Data, b08Data, rgba, bmp>>

\* A call of createBMP on a pixel buffer.
EncodeBitmap ==
  /\ job = "createBMP"
  /\ bmp = Pending
  /\ bmp' = [status |-> "returned", bytes |-> createBMP(rgba, width, height)]
  /\ UNCHANGED <<uiVars, inflate, handlerVars, width, height, tiffVars, lzwVars, job, b04Data, b08Data, mask, rgba>>

NextMask == GenerateMask \/ EncodeBitmap

SpecMask == InitMask /\ [][NextMask]_vars

----------------------------------------------------------------------------
(* Properties of the mask stage                                            *)

\* Pixel i (from 1) has both band values.
BothDefined(i) == i <= Len(b04Data) /\ i <= Len(b08Data)

\* C5: for every pixel with a + b <= 0 (a the NIR value, b the red value)
\* the index is exactly 0, for every pixel with a + b > 0 it is
\* (a - b) / (a + b), and no index is NaN or infinite, also when a band
\* array is shorter than width x height.
C5_IndexTotal ==
  mask # Pending =>
    \A i \in 1..(width * height) :
      LET idx == mask.ndvi[i]
      IN /\ idx.den > 0
         /\ ~BothDefined(i) => idx.num = 0
         /\ BothDefined(i) =>
              LET a == b08Data[i]
                  b == b04Data[i]
              IN /\ a + b <= 0 => idx.num = 0
                 /\ a + b > 0 => idx.num * (a + b) = (a - b) * idx.den

\* A mask was made from a short NIR band and a pixel with a + b < 0.
C5_Witness ==
  /\ mask # Pending
  /\ Len(b08Data) < width * height
  /\ \E i \in 1..(width * height) :
       /\ BothDefined(i)
       /\ b08Data[i] + b04Data[i] < 0
       /\ mask.ndvi[i].num = 0
  /\ \E i \in 1..(width * height) :
       /\ BothDefined(i)
       /\ b08Data[i] + b04Data[i] > 0
       /\ mask.ndvi[i].num < 0

\* The class of an index, by the interval it lies in.
ClassOf(idx) ==
  CASE Above(idx, 6, 10) -> "dense"
    [] ~Above(idx, 6, 10) /\ Above(idx, 4, 10) -> "moderate"
    [] ~Above(idx, 4, 10) /\ Above(idx, 2, 10) -> "sparse"
    [] ~Above(idx, 2, 10) /\ Above(idx, 0, 10) -> "bare"
    [] ~Above(idx, 0, 10) -> "water"

\* The four bytes of pixel i (from 1) of a pixel buffer.
Quad(buf, i) == SubSeq(buf, 4 * i - 3, 4 * i)

\* C6: every pixel gets exactly one of the five classes and its colour,
\* the thresholds 0.6, 0.4, 0.2 and 0 being compared strictly from the
\* highest down; red 0.1 with NIR 0.5 is dense, red 0.5 with NIR 0.1 water.
C6_Classification ==
  mask # Pending =>
    \A i \in 1..(width * height) :
      LET idx == mask.ndvi[i]
          quad == Quad(mask.rgba, i)
      IN /\ ClassOf(idx) = "dense" => quad = <<0, 128, 0, 200>>
         /\ ClassOf(idx) = "moderate" => quad = <<34, 139, 34, 180>>
         /\ ClassOf(idx) = "sparse" => quad = <<144, 238, 144, 150>>
         /\ ClassOf(idx) = "bare" => quad = <<210, 180, 140, 120>>
         /\ ClassOf(idx) = "water" =>
              quad = <<65, 105, 225, IF Below(idx, -1, 10) THEN 150 ELSE 50>>
         /\ (BothDefined(i) /\ b04Data[i] = 1000 /\ b08Data[i] = 5000)
              => quad = <<0, 128, 0, 200>>
         /\ (BothDefined(i) /\ b04Data[i] = 5000 /\ b08Data[i] = 1000)
              => quad = <<65, 105, 225, 150>>

\* A mask holds the pixel red 0.1, NIR 0.5 as dense and a water pixel.
C6_Witness ==
  /\ mask # Pending
  /\ \E i \in 1..(width * height) :
       /\ BothDefined(i)
       /\ b04Data[i] = 1000
       /\ b08Data[i] = 5000
       /\ Quad(mask.rgba, i) = <<0, 128, 0, 200>>
  /\ \E i \in 1..(width * height) : Quad(mask.rgba, i) = <<65, 105, 225, 150>>

\* The pixels whose band values give an index above 0.3: a + b > 0 and
\* (a - b) / (a + b) > 3/10, a the NIR and b the red value.
ForestPixels ==
  {i \in 1..(width * height) :
     /\ BothDefined(i)
     /\ b08Data[i] + b04Data[i] > 0
     /\ 10 * (b08Data[i] - b04Data[i]) > 3 * (b08Data[i] + b04Data[i])}

\* C19: the statistic is 100 times the number of pixels whose index is
\* strictly above 0.3, divided by width x height; it lies between 0 and
\* 100, and a pixel whose index was forced to 0 is not counted.
C19_ForestPercentage ==
  mask # Pending =>
    /\ mask.forestPercentage.den = width * height
    /\ mask.forestPercentage.num = 100 * Cardinality(ForestPixels)
    /\ mask.forestPercentage.num >= 0
    /\ mask.forestPercentage.num <= 100 * mask.forestPercentage.den
    /\ \A i \in 1..(width * height) :
         (BothDefined(i) /\ b08Data[i] + b04Data[i] <= 0) => i \notin ForestPixels

\* A 2 x 2 mask with one pixel above 0.3 and one forced to 0: the
\* statistic is 25.
C19_Witness ==
  /\ mask # Pending
  /\ width * height = 4
  /\ Cardinality(ForestPixels) = 1
  /\ mask.forestPercentage = [num |-> 100, den |-> 4]
  /\ \E i \in 1..4 : BothDefined(i) /\ b08Data[i] + b04Data[i] <= 0

\* C20 as stated: a pixel whose index, computed from a + b > 0, equals a
\* threshold is given the higher of the two classes that meet there: dense
\* at 0.6, moderate at 0.4, sparse at 0.2, bare soil at 0.
C20_TieGoesToHigherClass ==
  mask # Pending =>
    \A i \in 1..(width * height) :
      (BothDefined(i) /\ b08Data[i] + b04Data[i] > 0) =>
        LET idx == mask.ndvi[i]
            quad == Quad(mask.rgba, i)
        IN /\ 10 * idx.num = 6 * idx.den => quad = <<0, 128, 0, 200>>
           /\ 10 * idx.num = 4 * idx.den => quad = <<34, 139, 34, 180>>
           /\ 10 * idx.num = 2 * idx.den => quad = <<144, 238, 144, 150>>
           /\ idx.num = 0 => quad = <<210, 180, 140, 120>>

\* C7 as stated: two bands that do not both have width x height samples
\* are rejected with a contract error, and no index, mask or statistic
\* comes out.
C7_ShapeMismatchRejected ==
  (mask # Pending /\ (Len(b04Data) # width * height \/ Len(b08Data) # width * height))
  => mask.status = "error"

\* A signed 32-bit little-endian field of a buffer.
ReadInt32LE(buf, pos) ==
  buf[pos + 1] + 256 * buf[pos + 2] + 65536 * buf[pos + 3]
    + 16777216 * (IF buf[pos + 4] >= 128 THEN buf[pos + 4] - 256 ELSE buf[pos + 4])

\* The layout C8 gives for the bitmap of a w x h pixel buffer.
BmpLayout(out, pixels, w, h) ==
  /\ Len(out) = 54 + 4 * w * h
  /\ out[1] = 66
  /\ out[2] = 77
  /\ ReadInt32LE(out, 2) = 54 + 4 * w * h
  /\ ReadInt32LE(out, 10) = 54
  /\ ReadInt32LE(out, 14) = 40
  /\ ReadInt32LE(out, 18) = w
  /\ ReadInt32LE(out, 22) = -h
  /\ getUint16(out, 26, TRUE) = 1
  /\ getUint16(out, 28, TRUE) = 32
  /\ ReadInt32LE(out, 30) = 0
  /\ ReadInt32LE(out, 34) = 4 * w * h
  /\ \A k \in 0..(w * h - 1) :
       SubSeq(out, 54 + 4 * k + 1, 54 + 4 * k + 4)
         = <<pixels[4 * k + 3], pixels[4 * k + 2], pixels[4 * k + 1], pixels[4 * k + 4]>>

\* C8: for every width, height and pixel buffer of 4 x width x height
\* bytes createBMP returns 54 + 4 x width x height bytes: the 14-byte file
\* header, the 40-byte info header with the height negated, and the pixels
\* in row-major top-down order as B, G, R, A with no row padding.
C8_BitmapLayout ==
  /\ bmp # Pending => BmpLayout(bmp.bytes, rgba, width, height)
  /\ mask # Pending => BmpLayout(mask.bmp, mask.rgba, width, height)

\* A 2 x 2 pixel buffer has been encoded.
C8_Witness ==
  /\ bmp # Pending
  /\ width = 2
  /\ height = 2
  /\ Len(rgba) = 16
  /\ rgba[1] # rgba[3]
  /\ bmp.bytes[55] = rgba[3]
  /\ bmp.bytes[57] = rgba[1]
  /\ bmp.bytes[23] = 254
  /\ bmp.bytes[26] = 255

----------------------------------------------------------------------------
(* Encoding a byte sequence and decoding it again                          *)

\* Longest byte sequence of which every instance over ShortBytes is tried.
MaxShortLen == 4

\* Bytes a long sequence goes on for after its fresh part, repeating it.
LongTail == 300

\* The same for the shortest of the long sequences.
ShortTail == 20

ShortBytes == {0, 65, 255}

\* Lengths of the fresh part and of the tail of the long sequences: past
\* the change to 10-bit (twice), to 11-bit and to 12-bit codes, and past
\* the 3838 entries that fill the dictionary.
LongShapes ==
  {<<260, ShortTail>>, <<300, LongTail>>, <<900, LongTail>>, <<2000, LongTail>>,
   <<3900, LongTail>>}

\* A sequence in which every byte follows every other at most once: block
\* j (of 256) steps through the bytes by 2j + 1.
FreshByte(i) == ((i % 256) * (2 * (i \div 256) + 1)) % 256

\* Byte i (from 1) of the sequence an input description stands for.
\* The tail of a long sequence repeats the fresh part from byte echo on.
InputAt(in, i) ==
  IF in.kind = "short" THEN in.bytes[i]
  ELSE FreshByte(((i - 1) % in.fresh) + (IF i > in.fresh THEN in.echo ELSE 0))

InputLen(in) == IF in.kind = "short" THEN Len(in.bytes) ELSE in.fresh + in.tail

\* Clear codes a stream begins with, most: each moves every later code by
\* one bit in its byte.
MaxClears == 8

\* The encoder's state after n clear codes.
RECURSIVE PutClears(_, _)
PutClears(e, n) == IF n = 0 THEN e ELSE PutClears(PutCode(e, 256), n - 1)

ShortInputs ==
  {[kind |-> "short", bytes |-> b, leadClear |-> lc, clearWhenFull |-> FALSE,
    before |-> pad, clears |-> IF lc THEN 1 ELSE 0] :
     b \in UNION {[1..n -> ShortBytes] : n \in 0..MaxShortLen},
     lc \in BOOLEAN, pad \in {0, 2}}

LongInputs ==
  {[kind |-> "long", fresh |-> shape[1], tail |-> shape[2], leadClear |-> TRUE,
    clearWhenFull |-> cf, before |-> 0, clears |-> 1, echo |-> 0] :
     shape \in LongShapes, cf \in BOOLEAN}

\* Streams that reach 12-bit codes after 2 to MaxClears clear codes, so
\* that codes of every size start at every bit of a byte, and that end in
\* strings the dictionary took in last, so that the last codes are the
\* highest.
ShiftedInputs ==
  {[kind |-> "long", fresh |-> 2000, tail |-> ShortTail, leadClear |-> TRUE,
    clearWhenFull |-> FALSE, before |-> 0, clears |-> n, echo |-> 1900] :
     n \in 2..MaxClears}

InitLzw ==
  /\ TiffIdle
  /\ MaskIdle
  /\ InflateIdle
  /\ HandlerIdle
  /\ UiIdle
  /\ width = 1
  /\ height = 1
  /\ lzwIn \in ShortInputs \cup LongInputs \cup ShiftedInputs
  /\ lzwEnc = [st |-> PutClears(EncStart, lzwIn.clears),
               pos |-> 1]
  /\ lzwDec = << >>
  /\ lzwPhase = "encoding"

\* The encoder takes the next byte of the sequence.
EncodeByte ==
  /\ lzwPhase = "encoding"
  /\ lzwEnc.pos <= InputLen(lzwIn)
  /\ lzwEnc' = [st |-> EncByte(lzwEnc.st, InputAt(lzwIn, lzwEnc.pos),
                               lzwIn.clearWhenFull),
                pos |-> lzwEnc.pos + 1]
  /\ UNCHANGED <<uiVars, inflate, handlerVars, width, height, tiffVars, maskVars, lzwIn, lzwDec, lzwPhase>>

\* The bytes the strip is decoded from: the stream, between bytes that do
\* not belong to it.
StripBuffer(in, stream) ==
  [i \in 1..in.before |-> 255] \o stream \o [i \in 1..in.before |-> 255]

\* The encoder closes the stream; decompressLZW is called on it.
EncodeEnd ==
  /\ lzwPhase = "encoding"
  /\ lzwEnc.pos > InputLen(lzwIn)
  /\ LET stream == EncFinish(lzwEnc.st).out
     IN /\ lzwEnc' = [input |-> StripBuffer(lzwIn, stream),
                      endPos |-> lzwIn.before + Len(stream)]
        /\ lzwDec' = LzwStart(lzwIn.before)
  /\ lzwPhase' = "decoding"
  /\ UNCHANGED <<uiVars, inflate, handlerVars, width, height, tiffVars, maskVars, lzwIn>>

\* One iteration of decompressLZW's loop.
DecodeCode ==
  /\ lzwPhase = "decoding"
  /\ LzwMore(lzwDec, lzwEnc.endPos)
  /\ lzwDec' = LzwStep(lzwEnc.input, lzwEnc.endPos, lzwDec)
  /\ UNCHANGED <<uiVars, inflate, handlerVars, width, height, tiffVars, maskVars, lzwIn, lzwEnc, lzwPhase>>

\* The loop has ended and decompressLZW returns its output.
DecodeEnd ==
  /\ lzwPhase = "decoding"
  /\ ~LzwMore(lzwDec, lzwEnc.endPos)
  /\ lzwPhase' = "done"
  /\ UNCHANGED <<uiVars, inflate, handlerVars, width, height, tiffVars, maskVars, lzwIn, lzwEnc, lzwDec>>

NextLzw == EncodeByte \/ EncodeEnd \/ DecodeCode \/ DecodeEnd

SpecLzw == InitLzw /\ [][NextLzw]_vars

\* C2: a byte sequence written by the reference encoder (most significant
\* bit first, 9-bit codes widening to 12 by the decoder's growth rule,
\* clear code 256, end-of-information code 257) and read by decompressLZW
\* comes out unchanged, also when it crosses every change of code size and
\* fills the dictionary.
C2_LzwRoundTrip ==
  lzwPhase = "done" =>
    /\ Len(lzwDec.output) = InputLen(lzwIn)
    /\ \A i \in 1..InputLen(lzwIn) : lzwDec.output[i] = InputAt(lzwIn, i)

\* A sequence of 280 bytes has come back from codes that widened to 10
\* bits and, after that, stood for strings of more than one byte.
C2_Witness ==
  /\ lzwPhase = "done"
  /\ lzwIn.kind = "long"
  /\ lzwIn.fresh = 260
  /\ lzwDec.codeSize = 10
  /\ lzwDec.nextCode < 258 + InputLen(lzwIn) - 1
  /\ Len(lzwDec.output) = InputLen(lzwIn)

----------------------------------------------------------------------------
(* decompressDeflate, one framing at a time                                *)

\* Most samples in a byte range handed to decompressDeflate.
MaxInflateSamples == 3

\* Byte ranges: samples as a raw stream, in a zlib frame, behind a spoiling
\* byte and bare, each also without its last byte.
InflateInputs ==
  LET whole == {Payload(framing, Pattern(seed, n), le) :
                  framing \in {"raw", "zlib", "junk", "none"},
                  seed \in 0..(Len(SampleValues) - 1),
                  n \in 0..MaxInflateSamples, le \in BOOLEAN}
  IN whole \cup {SubSeq(d, 1, Len(d) - 1) : d \in {w \in whole : Len(w) > 0}}

InitInflate ==
  /\ TiffIdle
  /\ MaskIdle
  /\ LzwIdle
  /\ HandlerIdle
  /\ UiIdle
  /\ width = 1
  /\ height = 1
  /\ \E data \in InflateInputs :
       inflate = [data |-> data, k |-> 1, tried |-> << >>, status |-> "running",
                  out |-> << >>]

\* One pass of the loop over the formats: the stream of the format is
\* made, written, closed and read to its end; its output is returned, or
\* its error is caught and the loop goes on.
TryFormat ==
  /\ inflate # << >>
  /\ inflate.status = "running"
  /\ inflate.k <= Len(DeflateFormats)
  /\ LET format == DeflateFormats[inflate.k]
         r == InflateAs(format, inflate.data)
     IN inflate' = IF r.ok
                   THEN [inflate EXCEPT !.tried = Append(@, format),
                                        !.status = "returned", !.out = r.out]
                   ELSE [inflate EXCEPT !.tried = Append(@, format), !.k = @ + 1]
  /\ UNCHANGED <<uiVars, handlerVars, width, height, tiffVars, maskVars, lzwVars>>

\* throw new Error('Failed to decompress with any format')
ThrowNoFormat ==
  /\ inflate # << >>
  /\ inflate.status = "running"
  /\ inflate.k > Len(DeflateFormats)
  /\ inflate' = [inflate EXCEPT !.status = "thrown"]
  /\ UNCHANGED <<uiVars, handlerVars, width, height, tiffVars, maskVars, lzwVars>>

NextInflate == TryFormat \/ ThrowNoFormat

SpecInflate == InitInflate /\ [][NextInflate]_vars

\* C15: decompressDeflate tries raw Deflate first and zlib-framed Deflate
\* second; it returns the output of the first framing that succeeds and
\* tries nothing after it, tries the second only after the first has
\* failed, and throws only when both have failed.
C15_FramingOrder ==
  LET t == inflate.tried
      order == <<"deflate-raw", "deflate">>
  IN /\ Len(t) <= 2
     /\ \A i \in 1..Len(t) : t[i] = order[i]
     /\ \A i \in 1..(Len(t) - 1) : ~InflateAs(t[i], inflate.data).ok
     /\ inflate.status = "running" /\ Len(t) > 0 =>
          ~InflateAs(t[Len(t)], inflate.data).ok
     /\ inflate.status = "returned" =>
          /\ Len(t) > 0
          /\ InflateAs(t[Len(t)], inflate.data).ok
          /\ inflate.out = InflateAs(t[Len(t)], inflate.data).out
          /\ decompressDeflate(inflate.data) = [ok |-> TRUE, out |-> inflate.out]
     /\ inflate.status = "thrown" =>
          /\ t = order
          /\ ~InflateRaw(inflate.data).ok
          /\ ~InflateZlib(inflate.data).ok
          /\ ~decompressDeflate(inflate.data).ok

\* A zlib-framed range has been returned by the second framing after the
\* first had failed.
C15_Witness ==
  /\ inflate # << >>
  /\ inflate.status = "returned"
  /\ inflate.tried = <<"deflate-raw", "deflate">>
  /\ Len(inflate.out) = 4

----------------------------------------------------------------------------
(* The request handler: the bands fetched and decoded side by side         *)

\* Three of the handler's six bands, in the order of its list; the handler
\* treats every band of the list alike.
Bands == <<"B04", "B08", "B11">>

BandSet == {Bands[i] : i \in 1..Len(Bands)}

\* The place of a band in the list.
IndexOf(band) == CHOOSE i \in 1..Len(Bands) : Bands[i] = band

\* What the responses to the band requests hold: an uncompressed strip, two
\* zlib strips, two raw Deflate strips of which the second is spoiled, two
\* zlib strips holding one sample in all, an LZW strip, an uncompressed
\* strip behind a byte-order mark that is neither II nor MM; and a response
\* whose status is not ok.
BandShapes ==
  {[ok |-> TRUE, mark |-> <<73, 73>>, comp |-> 1, framing |-> "none",
    nStrips |-> 1, bad |-> 0, few |-> FALSE],
   [ok |-> TRUE, mark |-> <<73, 73>>, comp |-> 8, framing |-> "zlib",
    nStrips |-> 2, bad |-> 0, few |-> FALSE],
   [ok |-> TRUE, mark |-> <<73, 73>>, comp |-> 32946, framing |-> "raw",
    nStrips |-> 2, bad |-> 2, few |-> FALSE],
   [ok |-> TRUE, mark |-> <<73, 73>>, comp |-> 8, framing |-> "zlib",
    nStrips |-> 2, bad |-> 0, few |-> TRUE],
   [ok |-> TRUE, mark |-> <<73, 73>>, comp |-> 5, framing |-> "lzw",
    nStrips |-> 1, bad |-> 0, few |-> FALSE],
   [ok |-> TRUE, mark |-> <<0, 0>>, comp |-> 1, framing |-> "none",
    nStrips |-> 1, bad |-> 0, few |-> FALSE],
   [ok |-> FALSE, mark |-> <<73, 73>>, comp |-> 1, framing |-> "none",
    nStrips |-> 1, bad |-> 0, few |-> FALSE]}

\* The body of a response of the given shape; the samples start at a place
\* of SampleValues that is the band's own, so that no two bands hold the
\* same raster.
BandBody(shape, band, w, h) ==
  LET samples == Pattern(IndexOf(band) - 1, IF shape.few THEN 1 ELSE w * h)
  IN Build([mark |-> shape.mark, le |-> TRUE, compTag |-> TRUE,
            comp |-> shape.comp, framing |-> shape.framing, ftype |-> 3,
            counts |-> TRUE, rows |-> IF shape.nStrips = 1 THEN h ELSE 1,
            strips |-> SplitStrips(samples, shape.nStrips, w),
            samples |-> samples, keep |-> -1, ifdAt |-> 0, w |-> w, h |-> h,
            bad |-> shape.bad, gap |-> 0, trail |-> 0])

\* The response of a shape to the request for a band.
BandResponse(shape, band, w, h) ==
  IF shape.ok THEN [ok |-> TRUE, body |-> BandBody(shape, band, w, h)]
  ELSE [ok |-> FALSE, body |-> << >>]

\* bands.map(band => fetchBandData(...)): every request has been sent and
\* every task waits for its response; the handler waits in Promise.all.
InitBands ==
  /\ TiffIdle
  /\ MaskIdle
  /\ LzwIdle
  /\ InflateIdle
  /\ UiIdle
  /\ width = MaxSide
  /\ height = MaxSide
  /\ \E shapes \in [BandSet -> BandShapes] :
       bandTasks = [b \in BandSet |->
                      [response |-> BandResponse(shapes[b], b, MaxSide, MaxSide),
                       stage |-> "fetching", ifd |-> IfdInit(MaxSide), s |-> 0,
                       acc |-> NewRaster(0), outcome |-> Pending]]
  /\ settled = << >>
  /\ bandDataMap = << >>

BandLittleEndian(task) ==
  IsLittleEndian(getUint8(task.response.body, 0), getUint8(task.response.body, 1))

\* The promise of a task settles: rejected with an error, or fulfilled with
\* what the parser returned.
Settle(band, outcome) ==
  /\ bandTasks' = [bandTasks EXCEPT
                     ![band].stage = IF outcome.status = "error" THEN "rejected"
                                     ELSE "fulfilled",
                     ![band].outcome = outcome]
  /\ settled' = Append(settled, band)

\* await fetch(...) resumes: a response that is not ok makes the task throw.
Respond(band) ==
  /\ bandTasks[band].stage = "fetching"
  /\ IF bandTasks[band].response.ok
     THEN /\ bandTasks' = [bandTasks EXCEPT ![band].stage = "body"]
          /\ UNCHANGED settled
     ELSE Settle(band, [status |-> "error", error |-> "Failed to fetch band"])
  /\ UNCHANGED <<uiVars, bandDataMap, inflate, width, height, tiffVars, maskVars, lzwVars>>

\* await response.arrayBuffer() resumes and the parser runs up to its first
\* await: the header checks, the IFD and, unless the strips are Deflate
\* strips, the whole decode.
StartParse(band) ==
  /\ bandTasks[band].stage = "body"
  /\ LET buf == bandTasks[band].response.body
         ifd == ReadIfd(buf, height)
     IN IF HeaderError(buf) # "none" \/ ~InBounds(buf, IfdOffsetOf(buf), 2)
        THEN Settle(band, parseTiffInt16ToFloat32(buf, width, height))
        ELSE IF ifd.compression = 8 \/ ifd.compression = 32946
        THEN /\ bandTasks' = [bandTasks EXCEPT
                                ![band].stage = "strips",
                                ![band].ifd = ifd,
                                ![band].s = 0,
                                ![band].acc = NewRaster(width * height)]
             /\ UNCHANGED settled
        ELSE Settle(band, DecodeStrips(buf, BandLittleEndian(bandTasks[band]),
                                       ifd, width, height))
  /\ UNCHANGED <<uiVars, bandDataMap, inflate, width, height, tiffVars, maskVars, lzwVars>>

\* The Deflate loop goes on: s < stripOffsets.length && pixelIndex < totalPixels.
MoreStrips(task, totalPixels) ==
  task.s < Len(task.ifd.stripOffsets) /\ task.acc.pixelIndex < totalPixels

\* await decompressDeflate(compressedData) resumes for strip s: its samples
\* are written, or its pixels zero-filled.
StripStep(band) ==
  /\ bandTasks[band].stage = "strips"
  /\ MoreStrips(bandTasks[band], width * height)
  /\ LET task == bandTasks[band]
     IN bandTasks' = [bandTasks EXCEPT
                        ![band].acc = DeflateStrip(task.response.body,
                                                   BandLittleEndian(task), task.ifd,
                                                   task.s, task.acc, width * height,
                                                   width),
                        ![band].s = task.s + 1]
  /\ UNCHANGED <<uiVars, settled, bandDataMap, inflate, width, height, tiffVars, maskVars,
                 lzwVars>>

\* The Deflate loop is left: the raster is returned, or the fallback's.
FinishStrips(band) ==
  /\ bandTasks[band].stage = "strips"
  /\ ~MoreStrips(bandTasks[band], width * height)
  /\ LET task == bandTasks[band]
     IN Settle(band,
               IF TooFewPixels(task.acc.pixelIndex, width * height)
               THEN extractFallback(task.response.body, width, height,
                                    BandLittleEndian(task))
               ELSE [status |-> "raster", data |-> task.acc.result,
                     path |-> "codec"])
  /\ UNCHANGED <<uiVars, bandDataMap, inflate, width, height, tiffVars, maskVars, lzwVars>>

\* A result array filled in the order the tasks finished.
ResultOf_ByCompletion(index, order) == order[index]

\* Promise.all: the band whose result stands at a place of the result array
\* is the band at that place of the list, whatever the order of completion.
ResultOf(index, order) == Bands[index]

\* bandDataArrays, once every task is fulfilled.
bandDataArrays ==
  [index \in 1..Len(Bands) |-> bandTasks[ResultOf(index, settled)].outcome.data]

\* await Promise.all(...) resumes with every result;
\* bands.forEach((band, index) => bandDataMap[band] = bandDataArrays[index]).
Assemble ==
  /\ bandDataMap = << >>
  /\ \A b \in BandSet : bandTasks[b].stage = "fulfilled"
  /\ bandDataMap' = [status |-> "map",
                     map |-> [b \in BandSet |-> bandDataArrays[IndexOf(b)]]]
  /\ UNCHANGED <<uiVars, bandTasks, settled, inflate, width, height, tiffVars, maskVars,
                 lzwVars>>

\* The band whose rejection Promise.all passes on: the first to reject.
FirstRejected ==
  settled[CHOOSE i \in 1..Len(settled) :
            /\ bandTasks[settled[i]].stage = "rejected"
            /\ \A j \in 1..(i - 1) : bandTasks[settled[j]].stage # "rejected"]

\* Promise.all rejects as soon as one task has; the handler's catch answers
\* with the error and no band map is made.  The other tasks run on.
Fail ==
  /\ bandDataMap = << >>
  /\ \E b \in BandSet : bandTasks[b].stage = "rejected"
  /\ bandDataMap' = [status |-> "error",
                     error |-> bandTasks[FirstRejected].outcome.error]
  /\ UNCHANGED <<uiVars, bandTasks, settled, inflate, width, height, tiffVars, maskVars,
                 lzwVars>>

NextBands ==
  \/ \E band \in BandSet : Respond(band)
  \/ \E band \in BandSet : StartParse(band)
  \/ \E band \in BandSet : StripStep(band)
  \/ \E band \in BandSet : FinishStrips(band)
  \/ Assemble
  \/ Fail

SpecBands == InitBands /\ [][NextBands]_vars

\* The raster, or the error, of a band's response body decoded alone.
DecodedAlone(band) ==
  parseTiffInt16ToFloat32(bandTasks[band].response.body, width, height)

\* C18: whatever the interleaving of the tasks' steps, a band's task holds
\* between two strips what the decode of its buffer alone holds there, is
\* fulfilled with the raster of its buffer decoded alone, and is rejected
\* only when its own response is not ok or its own buffer is rejected; the
\* band map gives every band the raster of its own response, whatever the
\* order the tasks finished in, and is made only when no task was rejected.
C18_BandsIndependent ==
  /\ \A b \in BandSet :
       LET task == bandTasks[b]
           buf == task.response.body
           total == width * height
       IN /\ task.stage = "strips" =>
               Strips(buf, BandLittleEndian(task), task.ifd, task.s, task.acc,
                      total, width)
                 = Strips(buf, BandLittleEndian(task), ReadIfd(buf, height), 0,
                          NewRaster(total), total, width)
          /\ task.stage = "fulfilled" =>
               task.response.ok /\ task.outcome = DecodedAlone(b)
          /\ task.stage = "rejected" =>
               \/ ~task.response.ok
               \/ DecodedAlone(b).status = "error" /\ task.outcome = DecodedAlone(b)
  /\ bandDataMap # << >> /\ bandDataMap.status = "map" =>
       \A b \in BandSet :
          /\ DecodedAlone(b).status = "raster"
          /\ bandDataMap.map[b] = DecodedAlone(b).data
  /\ bandDataMap # << >> /\ bandDataMap.status = "error" =>
       \E b \in BandSet :
          ~bandTasks[b].response.ok \/ DecodedAlone(b).status = "error"

\* The band map has been made after the tasks finished in the reverse of
\* the order of the list, the last band's Deflate strips decoded first, and
\* no two bands hold the same raster.
C18_Witness ==
  /\ bandDataMap # << >>
  /\ bandDataMap.status = "map"
  /\ settled = <<Bands[3], Bands[2], Bands[1]>>
  /\ bandTasks[Bands[3]].s = 2
  /\ bandTasks[Bands[1]].outcome.path # "codec"
  /\ \A a, b \in BandSet : a # b => bandDataMap.map[a] # bandDataMap.map[b]

----------------------------------------------------------------------------
(* decompressLZW on code sequences of every kind                           *)

\* Most codes in a code sequence of which every instance is tried.
MaxCodes == 3

\* Two literals, the clear and the end-of-information code, and the first
\* two codes the dictionary assigns.
CodeAlphabet == {65, 66, 256, 257, 258, 259}

\* Longer sequences: the next code to assign after a string of two bytes
\* and after a string of one, codes past it, and codes on both sides of a
\* clear and of an end-of-information code.
ChosenCodes ==
  {<<65, 66, 258, 260>>, <<65, 66, 259, 511>>, <<65, 66, 258, 261>>,
   <<65, 66, 258, 256, 258>>, <<65, 66, 258, 256, 66, 258, 260>>,
   <<65, 66, 258, 257, 65, 66>>, <<65, 65, 258, 259, 260, 257>>,
   <<256, 65, 258, 259, 66, 260, 257>>, <<65, 257, 66>>, <<257, 65>>,
   <<65, 66, 257, 258, 257>>}

\* The codes from the lo-th to the hi-th written one after the other with
\* the sizes the decoder reads them with.  The range is halved, and the
\* first half is packed (its bit count looked at) before the second is
\* begun, so that a long sequence does not nest deeply.
RECURSIVE PutCodes(_, _, _, _)
PutCodes(e, codes, lo, hi) ==
  IF lo > hi THEN e
  ELSE IF lo = hi THEN PutCode(e, codes[lo])
  ELSE LET first == PutCodes(e, codes, lo, (lo + hi) \div 2)
       IN IF first.bits >= 0
          THEN PutCodes(first, codes, (lo + hi) \div 2 + 1, hi)
          ELSE first

\* Zero bits up to the next byte boundary.
Flush(e) ==
  IF e.bits = 0 THEN e
  ELSE Drain([e EXCEPT !.acc = @ * (2 ^ (8 - e.bits)), !.bits = 8])

\* The bytes of a code sequence.
CodeStream(codes) == Flush(PutCodes(EncStart, codes, 1, Len(codes))).out

\* Literals before a long code sequence gets to its last codes: enough for
\* the codes to have widened to 10 bits.
LiteralRun == 260

\* Literal i of the run: no pair of neighbours comes twice.
RunLiteral(i) == (i * 7) % 256

\* Code sequences, each alone in its byte range and followed in it by
\* bytes that stand for no code of the sequence: every short sequence, the
\* chosen ones, and runs of literals that end in a clear code or in codes
\* of 10 bits, and codes after them.
CodeInputs ==
  {[kind |-> "codes", codes |-> codes, trailing |-> << >>] :
     codes \in UNION {[1..n -> CodeAlphabet] : n \in 0..MaxCodes}}
  \cup
  {[kind |-> "codes", codes |-> codes, trailing |-> trailing] :
     codes \in ChosenCodes
                \cup {[i \in 1..LiteralRun |-> RunLiteral(i)] \o tail :
                        tail \in {<<256, 65, 258>>, <<256, 258>>, <<256, 257, 65>>,
                                  <<600, 65>>, <<1023>>}},
     trailing \in {<< >>, <<170, 85, 255>>}}

\* decompressLZW is called on the byte range of a code sequence.
InitCodes ==
  /\ TiffIdle
  /\ MaskIdle
  /\ InflateIdle
  /\ HandlerIdle
  /\ UiIdle
  /\ width = 1
  /\ height = 1
  /\ lzwIn \in CodeInputs
  /\ lzwEnc = [input |-> CodeStream(lzwIn.codes) \o lzwIn.trailing,
               endPos |-> Len(CodeStream(lzwIn.codes)) + Len(lzwIn.trailing)]
  /\ lzwDec = LzwStart(0)
  /\ lzwPhase = "decoding"

NextCodes == DecodeCode \/ DecodeEnd

SpecCodes == InitCodes /\ [][NextCodes]_vars

\* The loop is about to run once more.
Decoding == lzwPhase = "decoding" /\ LzwMore(lzwDec, lzwEnc.endPos)

\* The code the next iteration reads, and the decoder after the iteration.
NextRead == readCode(lzwEnc.input, lzwEnc.endPos, lzwDec)

AfterStep == LzwStep(lzwEnc.input, lzwEnc.endPos, lzwDec)

\* The codes that stand for a string: the 256 bytes and the codes assigned
\* since the start or the last clear.
InDictionary(d, code) ==
  (code >= 0 /\ code < 256) \/ (code >= 258 /\ code < d.nextCode)

\* C21: a code that is in the dictionary emits its string; a code equal to
\* the next code to assign, when there is a previous code, emits the
\* previous string followed by its first byte; any other code (also the
\* next code to assign when there is no previous code) ends the loop at
\* once with the output emitted so far unchanged.
C21_KwKwKAndInvalidCodes ==
  (Decoding /\ NextRead.code \notin {256, 257})
  => LET d == lzwDec
         code == NextRead.code
         n == AfterStep
     IN IF InDictionary(d, code)
        THEN n.running /\ n.output = d.output \o d.dictionary[code + 1]
        ELSE IF code = d.nextCode /\ d.oldCode >= 0
        THEN /\ n.running
             /\ n.output = d.output \o d.dictionary[d.oldCode + 1]
                             \o <<d.dictionary[d.oldCode + 1][1]>>
        ELSE ~LzwMore(n, lzwEnc.endPos) /\ n.output = d.output

\* The codes 65, 66, 259, 511 have been decoded: 259 was the next code to
\* assign and gave 66 66, 511 ended the decoding, and the four bytes
\* emitted before it were returned.
C21_Witness ==
  /\ lzwPhase = "done"
  /\ lzwIn.kind = "codes"
  /\ lzwIn.codes = <<65, 66, 259, 511>>
  /\ lzwIn.trailing = << >>
  /\ lzwDec.output = <<65, 66, 66, 66>>

\* A decoder at its start that reads on where the decoder d reads.
FreshAt(d) ==
  [LzwStart(d.bytePos) EXCEPT !.bitBuffer = d.bitBuffer,
                              !.bitsInBuffer = d.bitsInBuffer]

\* C22: the clear code emits nothing and leaves the 256 single-byte
\* strings, next code 258, code size 9 and no previous code, so that what
\* is emitted after it is what a decoder at its start emits for the codes
\* that follow; the end-of-information code emits nothing either, and the
\* codes 256 and 257 never have a dictionary entry.
C22_ClearResets ==
  /\ lzwDec # << >> =>
       \A code \in {256, 257} :
          code < Len(lzwDec.dictionary) => lzwDec.dictionary[code + 1] = << >>
  /\ (Decoding /\ NextRead.code = 257) => AfterStep.output = lzwDec.output
  /\ (Decoding /\ NextRead.code = 256) =>
       LET n == AfterStep
       IN /\ n.output = lzwDec.output
          /\ n.running
          /\ n.nextCode = 258 /\ n.codeSize = 9 /\ n.oldCode = -1
          /\ \A c \in 0..255 : n.dictionary[c + 1] = <<c>>
          /\ \A code \in 258..4095 : ~InDictionary(n, code)
          /\ LzwLoop(lzwEnc.input, lzwEnc.endPos, n).output
               = lzwDec.output
                   \o LzwLoop(lzwEnc.input, lzwEnc.endPos, FreshAt(n)).output

\* A run of literals that widened the codes to 10 bits was followed by a
\* clear code, 65 and 258: the two codes were read with 9 bits and gave
\* 65 and, 258 being the next code to assign again, 65 65.
C22_Witness ==
  /\ lzwPhase = "done"
  /\ lzwIn.kind = "codes"
  /\ Len(lzwIn.codes) = LiteralRun + 3
  /\ SubSeq(lzwIn.codes, LiteralRun + 1, LiteralRun + 3) = <<256, 65, 258>>
  /\ lzwDec.codeSize = 9
  /\ lzwDec.nextCode = 259
  /\ Len(lzwDec.output) = LiteralRun + 3
  /\ SubSeq(lzwDec.output, LiteralRun + 1, LiteralRun + 3) = <<65, 65, 65>>

\* C23: the code size is 9 at the start and after a clear, grows by one
\* only, exactly when the next code to assign reaches 2^codeSize while the
\* size is below 12, and is 9 to 12 throughout; the next code to assign is
\* 258 to 4096 and at most 2^codeSize; nothing is added once it is 4096;
\* and every code below it other than 256 and 257 has an entry.
C23_CodeSizeInvariants ==
  lzwDec # << >> =>
    /\ lzwDec.nextCode >= 258 /\ lzwDec.nextCode <= 4096
    /\ lzwDec.codeSize >= 9 /\ lzwDec.codeSize <= 12
    /\ lzwDec.nextCode <= 2 ^ lzwDec.codeSize
    /\ (lzwDec.nextCode = 258 /\ lzwDec.oldCode = -1) => lzwDec.codeSize = 9
    /\ \A code \in 0..(lzwDec.nextCode - 1) :
         code \notin {256, 257} =>
           code < Len(lzwDec.dictionary) /\ lzwDec.dictionary[code + 1] # << >>
    /\ (Decoding /\ NextRead.code # 256) =>
         LET d == lzwDec
             n == AfterStep
         IN /\ n.codeSize \in {d.codeSize, d.codeSize + 1}
            /\ n.codeSize = d.codeSize + 1
                 <=> /\ n.nextCode = d.nextCode + 1
                     /\ n.nextCode = 2 ^ d.codeSize
                     /\ d.codeSize < 12
            /\ d.nextCode = 4096 =>
                 n.nextCode = 4096 /\ n.dictionary = d.dictionary

\* The 254th entry has just been added: the next code to assign is 512 and
\* the codes are read with 10 bits from here on.
C23_Witness ==
  /\ lzwPhase = "decoding"
  /\ lzwDec.nextCode = 512
  /\ lzwDec.codeSize = 10
  /\ lzwDec.oldCode >= 0

\* The loop of decompressLZW is a loop of one synchronous call: once
\* called, it runs on until it is left.
FairCodes == SpecCodes /\ WF_vars(NextCodes)

\* The bits of the byte range that no code has been taken from yet.
Unread(d) == 8 * (lzwEnc.endPos - d.bytePos) + d.bitsInBuffer

\* The place of the first end-of-information code of a sequence, or 0.
FirstEoi(codes) ==
  IF \E k \in 1..Len(codes) : codes[k] = 257
  THEN CHOOSE k \in 1..Len(codes) :
         codes[k] = 257 /\ \A j \in 1..(k - 1) : codes[j] # 257
  ELSE 0

\* Every iteration takes codeSize bits from the range or ends the loop;
\* the loop ends when fewer than codeSize bits are unread and when the
\* end-of-information code is read; and what is returned for a sequence
\* with that code is what is returned for the sequence cut after it, in a
\* range that ends there.
C24_ConsumesOrEnds ==
  /\ Decoding =>
       LET d == lzwDec
           n == AfterStep
       IN /\ Unread(d) >= 0
          /\ \/ ~LzwMore(n, lzwEnc.endPos)
             \/ Unread(n) = Unread(d) - d.codeSize
          /\ Unread(d) < d.codeSize => ~LzwMore(n, lzwEnc.endPos)
          /\ NextRead.code = 257 =>
               ~LzwMore(n, lzwEnc.endPos) /\ n.output = d.output
  /\ (/\ lzwPhase = "done"
      /\ Len(lzwIn.codes) < LiteralRun
      /\ FirstEoi(lzwIn.codes) > 0)
     => LET cut == CodeStream(SubSeq(lzwIn.codes, 1, FirstEoi(lzwIn.codes)))
        IN lzwDec.output = decompressLZW(cut, 0, Len(cut))

\* C24: decompressLZW terminates on every byte range: each iteration takes
\* codeSize bits or ends the loop, the loop ends at the first
\* end-of-information code or when fewer than codeSize bits are unread,
\* and the bytes after an end-of-information code do not change what is
\* returned.
C24_Terminates == []C24_ConsumesOrEnds /\ <>(lzwPhase = "done")

\* The codes 65, 257, 66 followed by three more bytes have been decoded:
\* the loop ended at 257 with bytes of the range unread and returned 65.
C24_Witness ==
  /\ lzwPhase = "done"
  /\ lzwIn.codes = <<65, 257, 66>>
  /\ lzwIn.trailing = <<170, 85, 255>>
  /\ lzwDec.bytePos < lzwEnc.endPos
  /\ lzwDec.output = <<65>>

----------------------------------------------------------------------------
(* readCode against the bits of the byte range                             *)

\* Bit k (from 0) of a byte sequence, the most significant bit of a byte first.
BitAt(input, k) == (input[k \div 8 + 1] \div (2 ^ (7 - (k % 8)))) % 2

\* The number the n bits from bit k on spell, most significant first.
RECURSIVE BitsAt(_, _, _)
BitsAt(input, k, n) ==
  IF n = 0 THEN 0
  ELSE 2 * BitsAt(input, k, n - 1) + BitAt(input, k + n - 1)

\* The place in the input of the first bit no code has been taken from.
BitPos(d) == 8 * d.bytePos - d.bitsInBuffer

\* C30: whenever the range still holds codeSize bits, readCode returns the
\* next codeSize bits of the input, most significant bit first, whatever
\* the code size and the place of the code in its byte, although the bit
\* buffer is never masked and wraps at 32 bits; the buffer then holds at
\* most 19 bits, and at most 7 once the code is taken.
C30_ReadCodeMsbFirst ==
  Decoding =>
    LET d == lzwDec
        f == FillBits(lzwEnc.input, lzwEnc.endPos, d)
        r == NextRead
    IN /\ d.codeSize \in 9..12
       /\ d.bitsInBuffer \in 0..7
       /\ f.bitsInBuffer <= 19
       /\ f.bitsInBuffer >= f.codeSize =>
            /\ r.code = BitsAt(lzwEnc.input, BitPos(d), d.codeSize)
            /\ BitPos(r.st) = BitPos(d) + d.codeSize
            /\ r.st.bitsInBuffer \in 0..7

\* A 10-bit code with its highest bit set is about to be read from the
\* middle of a byte, under the bits of the codes read before it.
C30_Witness ==
  /\ Decoding
  /\ lzwDec.codeSize = 10
  /\ lzwDec.bitsInBuffer \in 1..7
  /\ LET f == FillBits(lzwEnc.input, lzwEnc.endPos, lzwDec)
     IN f.bitBuffer \div (2 ^ f.bitsInBuffer) # 0
  /\ NextRead.code > 511

----------------------------------------------------------------------------
(* useSatelliteProcessing                                                  *)

\* Calls of fetchImagery and predict made in a behaviour, most.
MaxCalls == 3

\* null, comparable with the payloads and messages below.
Null == << >>

\* The initial state of the hook, which reset() sets again.
HookIdle ==
  [step |-> "idle", satelliteImage |-> Null, predictionResult |-> Null,
   error |-> Null]

\* What a request can come back with: a response with an image or a
\* prediction, a response without one, a response with an error field, or
\* a rejection.
Outcomes == {"payload", "empty", "error", "thrown"}

\* The payload of the response to call id.
PayloadOf(id) == <<"payload", id>>

\* No component but the hook is mounted.
InitHook ==
  /\ TiffIdle
  /\ MaskIdle
  /\ LzwIdle
  /\ InflateIdle
  /\ HandlerIdle
  /\ width = 1
  /\ height = 1
  /\ panel = << >>
  /\ hook = [state |-> HookIdle, calls |-> {}, issued |-> 0, quiet |-> FALSE]

\* A call is under way from its first setState to the setState behind its
\* await: kind says which function runs, chained that processAOI made the
\* call and goes on to predict when an image arrives.
StartCall(kind, chained, step) ==
  [hook EXCEPT !.state = [@ EXCEPT !.step = step, !.error = Null],
               !.calls = @ \cup {[id |-> hook.issued + 1, kind |-> kind,
                                  chained |-> chained]},
               !.issued = @ + 1,
               !.quiet = FALSE]

\* fetchImagery(bbox) up to its await; chained when processAOI calls it.
FetchImagery ==
  /\ hook # << >>
  /\ hook.issued < MaxCalls
  /\ \E chained \in BOOLEAN :
       hook' = StartCall("imagery", chained, "fetching_imagery")
  /\ UNCHANGED <<panel, width, height, tiffVars, maskVars, lzwVars, inflate, handlerVars>>

\* predict(imageBase64, bbox, modelType) up to its await.
Predict ==
  /\ hook # << >>
  /\ hook.issued < MaxCalls
  /\ hook' = StartCall("predict", FALSE, "running_prediction")
  /\ UNCHANGED <<panel, width, height, tiffVars, maskVars, lzwVars, inflate, handlerVars>>

\* reset(): the state is set to the initial one; the calls in flight go on.
ResetHook(h) == [h EXCEPT !.state = HookIdle, !.quiet = TRUE]

\* handleShapeCreated, handleShapeDeleted and handleClear call reset().
Reset ==
  /\ hook # << >>
  /\ hook' = ResetHook(hook)
  /\ UNCHANGED <<panel, width, height, tiffVars, maskVars, lzwVars, inflate, handlerVars>>

\* The state after the setState behind the await of a call.
Resolved(state, call, outcome) ==
  IF outcome \in {"error", "thrown"}
  THEN [state EXCEPT !.step = "error", !.error = <<outcome, call.id>>]
  ELSE IF call.kind = "imagery"
  THEN [state EXCEPT !.step = "idle",
                     !.satelliteImage =
                        IF outcome = "payload" THEN PayloadOf(call.id) ELSE Null]
  ELSE [state EXCEPT !.step = "complete",
                     !.predictionResult =
                        IF outcome = "payload" THEN PayloadOf(call.id) ELSE Null]

\* The response to a call arrives and the rest of the function runs; under
\* processAOI an image starts predict at once.
Resolve ==
  /\ hook # << >>
  /\ \E call \in hook.calls, outcome \in Outcomes :
       LET after == [hook EXCEPT !.state = Resolved(@, call, outcome),
                                 !.calls = @ \ {call}]
       IN IF call.chained /\ outcome = "payload" /\ hook.issued < MaxCalls
          THEN hook' = [after EXCEPT
                          !.state = [@ EXCEPT !.step = "running_prediction",
                                              !.error = Null],
                          !.calls = @ \cup {[id |-> hook.issued + 1,
                                             kind |-> "predict", chained |-> FALSE]},
                          !.issued = @ + 1,
                          !.quiet = FALSE]
          ELSE hook' = after
  /\ UNCHANGED <<panel, width, height, tiffVars, maskVars, lzwVars, inflate, handlerVars>>

NextHook == FetchImagery \/ Predict \/ Reset \/ Resolve

SpecHook == InitHook /\ [][NextHook]_vars

\* C28 as stated: from a reset() until the next fetchImagery or predict
\* call starts, satelliteImage and predictionResult are null and step is
\* 'idle'.
AfterResetUntouched ==
  (hook # << >> /\ hook.quiet) => hook.state = HookIdle

\* C28: after fetchImagery was called and reset() after it, the response
\* has arrived: no call has been started since the reset and none is in
\* flight, and satelliteImage holds the image of the call made before it.
C28_LateResponseAfterReset ==
  /\ hook # << >>
  /\ hook.quiet
  /\ hook.issued = 1
  /\ hook.calls = {}
  /\ hook.state.satelliteImage = PayloadOf(1)
  /\ hook.state.step = "idle"

----------------------------------------------------------------------------
(* ImageVisualization                                                      *)

\* Fetches made by the component in a behaviour, most.
MaxFetches == 3

\* Three of the visualization types.
VizTypes == {"true_color", "ndvi", "false_color"}

\* The satelliteImage prop; the component renders nothing without it.
SatelliteImage == <<"satellite">>

\* The image of the response to fetch id.
ImageOf(id) == <<"image", id>>

\* The render: true_color is set to the satelliteImage prop whenever the
\* cache holds nothing for it.
Seed(cache) ==
  IF cache["true_color"] = Null THEN [cache EXCEPT !["true_color"] = SatelliteImage]
  ELSE cache

\* currentImage: visualizationCache[activeVisualization] || satelliteImage
CurrentImage(p) ==
  IF p.cache[p.active] # Null THEN p.cache[p.active] ELSE SatelliteImage

\* The component after its first render, with or without a bbox prop.
InitPanel ==
  /\ TiffIdle
  /\ MaskIdle
  /\ LzwIdle
  /\ InflateIdle
  /\ HandlerIdle
  /\ width = 1
  /\ height = 1
  /\ hook = << >>
  /\ \E bbox \in BOOLEAN :
       panel = [cache |-> Seed([v \in VizTypes |-> Null]), active |-> "true_color",
                loading |-> Null, bbox |-> bbox, fetches |-> {}, issued |-> 0,
                last |-> <<"render">>]

\* fetchVisualization(vizType) up to its await, applied to the state p the
\* event handler leaves behind.  cache is the visualizationCache of the
\* render the callback was made in, which is what its test reads.
fetchVisualization(p, cache, vizType) ==
  IF ~p.bbox THEN p
  ELSE IF cache[vizType] # Null THEN [p EXCEPT !.active = vizType]
  ELSE [p EXCEPT !.loading = <<vizType>>,
                 !.fetches = @ \cup {[id |-> p.issued + 1, viz |-> vizType]},
                 !.issued = @ + 1]

\* handleVisualizationChange: a tab is chosen; the tabs are disabled while a
\* fetch is loading.
SelectTab ==
  /\ panel # << >>
  /\ panel.loading = Null
  /\ panel.issued < MaxFetches
  /\ \E viz \in VizTypes :
       panel' = [(IF panel.cache[viz] # Null THEN [panel EXCEPT !.active = viz]
                  ELSE fetchVisualization(panel, panel.cache, viz))
                 EXCEPT !.last = <<"select", viz>>]
  /\ UNCHANGED <<hook, width, height, tiffVars, maskVars, lzwVars, inflate, handlerVars>>

\* The Calculate button of a type that is not cached.
Calculate ==
  /\ panel # << >>
  /\ panel.loading = Null
  /\ panel.bbox
  /\ panel.issued < MaxFetches
  /\ \E viz \in VizTypes \ {"true_color"} :
       /\ panel.cache[viz] = Null
       /\ panel' = [fetchVisualization(panel, panel.cache, viz)
                    EXCEPT !.last = <<"calculate", viz>>]
  /\ UNCHANGED <<hook, width, height, tiffVars, maskVars, lzwVars, inflate, handlerVars>>

\* handleRefresh(vizType): the entry is taken out of the cache by a state
\* update, and fetchVisualization is called in the same event, with the
\* cache of the render the button was drawn in.
handleRefresh(p, vizType) ==
  [fetchVisualization([p EXCEPT !.cache = Seed([@ EXCEPT ![vizType] = Null])],
                      p.cache, vizType)
   EXCEPT !.last = <<"refresh", vizType>>]

\* The refresh button, drawn for the types that are cached.
Refresh ==
  /\ panel # << >>
  /\ panel.issued < MaxFetches
  /\ \E viz \in VizTypes :
       /\ panel.cache[viz] # Null
       /\ panel' = handleRefresh(panel, viz)
  /\ UNCHANGED <<hook, width, height, tiffVars, maskVars, lzwVars, inflate, handlerVars>>

\* The response to a fetch arrives: an image is cached and shown; without
\* an image, with an error field or on a rejection only loadingViz is
\* cleared.
Arrive ==
  /\ panel # << >>
  /\ \E f \in panel.fetches, outcome \in Outcomes :
       panel' = [(IF outcome = "payload"
                  THEN [panel EXCEPT !.cache = Seed([@ EXCEPT ![f.viz] = ImageOf(f.id)]),
                                     !.active = f.viz]
                  ELSE panel)
                 EXCEPT !.loading = Null,
                        !.fetches = @ \ {f},
                        !.last = <<"arrive", f.viz>>]
  /\ UNCHANGED <<hook, width, height, tiffVars, maskVars, lzwVars, inflate, handlerVars>>

NextPanel == SelectTab \/ Calculate \/ Refresh \/ Arrive

SpecPanel == InitPanel /\ [][NextPanel]_vars

\* C29: refresh has been pressed on NDVI, whose image was cached and
\* shown: the cache entry is gone, but no fetch is in flight and nothing is
\* loading, and the image shown under NDVI is the true-colour satellite
\* image.
C29_RefreshStartsNoFetch ==
  /\ panel # << >>
  /\ panel.bbox
  /\ panel.last = <<"refresh", "ndvi">>
  /\ panel.issued = 1
  /\ panel.cache["ndvi"] = Null
  /\ panel.fetches = {}
  /\ panel.loading = Null
  /\ panel.active = "ndvi"
  /\ CurrentImage(panel) = SatelliteImage

----------------------------------------------------------------------------
(* The decode of buffers with arbitrary IFD entries                        *)

\* The bytes between the header and the IFD: at 8 the 32-bit array 24, 26
\* (two strip offsets); at 16 the 32-bit array 2, 4 (their byte counts); at
\* 24 three samples; at 30 the 16-bit array 2, 2, 2.
IfdData(le) ==
  U32(24, le) \o U32(26, le) \o U32(2, le) \o U32(4, le)
    \o SampleBytes(<<1, -2, 258>>, le)
    \o U16(2, le) \o U16(2, le) \o U16(2, le)

\* Where the IFD of these buffers starts: behind the header and the data.
IfdAt == 8 + Len(IfdData(TRUE))

\* A value held in the value field of an entry of type ftype: a 16-bit
\* value is followed by two bytes that belong to no value.
InlineField(ftype, value, le) ==
  IF ftype = 3 THEN U16(value, le) \o <<1, 1>> ELSE U32(value, le)

\* The 12 bytes of an entry.
EntryBytes(e, le) ==
  U16(e.tag, le) \o U16(e.ftype, le) \o U32(e.count, le) \o e.field

\* The buffer: header, data, the entry count the description claims, the
\* entries.
BuildIfd(g) ==
  GoodMark(g.le) \o U16(42, g.le) \o U32(IfdAt, g.le) \o IfdData(g.le)
    \o U16(g.claimed, g.le)
    \o Flatten([k \in 1..Len(g.entries) |-> EntryBytes(g.entries[k], g.le)])

\* An offset past the end of every buffer built here.
FarOffset == 100

\* Entries for the compression code: none, or one of a few codes.
CompressionEntries(le) ==
  {<< >>} \cup
  {<<[tag |-> 259, ftype |-> c[1], count |-> 1,
      field |-> InlineField(c[1], c[2], le), array |-> << >>]>> :
     c \in {<<4, 1>>, <<3, 5>>, <<4, 8>>, <<3, 7>>}}

\* Entries for a strip list (tag 273 or 279): one value in the field, in 16
\* or 32 bits; a 32-bit array inside the buffer, with as many elements as
\* counted or fewer; a 16-bit array inside the buffer; an array outside the
\* buffer; an array that the last len bytes of the buffer hold the start
\* of; no element.  array is what the array holds, where it lies wholly
\* inside the buffer.
ListEntries(tag, le, len) ==
  LET one == IF tag = 273 THEN {<<3, 24>>, <<4, 24>>, <<4, FarOffset>>}
             ELSE {<<3, 2>>, <<4, 6>>, <<4, FarOffset>>}
      at == IF tag = 273 THEN 8 ELSE 16
      elems == IF tag = 273 THEN <<24, 26>> ELSE <<2, 4>>
  IN {<<[tag |-> tag, ftype |-> v[1], count |-> 1,
         field |-> InlineField(v[1], v[2], le), array |-> << >>]>> : v \in one}
     \cup
     {<<[tag |-> tag, ftype |-> 4, count |-> 2, field |-> U32(at, le),
         array |-> elems]>>,
      <<[tag |-> tag, ftype |-> 4, count |-> 3, field |-> U32(8, le),
         array |-> <<24, 26, 2>>]>>,
      <<[tag |-> tag, ftype |-> 3, count |-> 3, field |-> U32(30, le),
         array |-> <<2, 2, 2>>]>>,
      <<[tag |-> tag, ftype |-> 4, count |-> 2, field |-> U32(FarOffset, le),
         array |-> << >>]>>,
      <<[tag |-> tag, ftype |-> 4, count |-> 3, field |-> U32(len - 6, le),
         array |-> << >>]>>,
      <<[tag |-> tag, ftype |-> 4, count |-> 0, field |-> U32(8, le),
         array |-> << >>]>>,
      << >>}

\* Entries for rows per strip, and an entry whose tag the parser does not
\* know and whose field looks like an array to read.
OtherEntries(le) ==
  {<< >>,
   <<[tag |-> 278, ftype |-> 3, count |-> 1, field |-> InlineField(3, 1, le),
      array |-> << >>]>>,
   <<[tag |-> 256, ftype |-> 4, count |-> 2, field |-> U32(8, le),
      array |-> << >>]>>}

\* Entry counts written in front of n entries: theirs, one more, and a
\* count whose entries run far past the end of the buffer.
ClaimedCounts(n) == {n, n + 1, 300}

\* 2 x 2 rasters whose IFD holds any choice of these entries, in a byte
\* order.
AllIfdInputsIn(le) ==
  LET len == IfdAt + 2 + 12 * 4
  IN UNION {
       {[kind |-> "ifd", le |-> le, w |-> 2, h |-> 2, claimed |-> n,
         entries |-> t[1] \o t[2] \o t[3] \o t[4]] :
          n \in ClaimedCounts(Len(t[1] \o t[2] \o t[3] \o t[4]))} :
       t \in CompressionEntries(le) \X ListEntries(273, le, len)
               \X ListEntries(279, le, len) \X OtherEntries(le)}

\* Longest byte range the LZW loop is evaluated on.
MaxLzwBytes == 200

\* An array that is read from bytes that are no array gives byte counts of
\* many thousands; the LZW loop over so many bytes is left out.
LzwFeasible(g) ==
  LET ifd == ReadIfd(BuildIfd(g), g.h)
  IN (IfdInBounds(BuildIfd(g)) /\ ifd.compression = 5) =>
       \A k \in 1..Len(ifd.stripByteCounts) : ifd.stripByteCounts[k] <= MaxLzwBytes

IfdInputs ==
  {g \in AllIfdInputsIn(TRUE) \cup AllIfdInputsIn(FALSE) : LzwFeasible(g)}

\* Two-strip 2 x 2 rasters of one row per strip in which the first strip
\* holds one sample fewer, or one more, than a row: uncompressed, LZW and
\* Deflate.
UnevenInputs ==
  {[kind |-> "strips", mark |-> GoodMark(le), le |-> le, compTag |-> TRUE,
    comp |-> c[1], framing |-> c[2], ftype |-> 3, counts |-> TRUE, rows |-> 1,
    strips |-> st, samples |-> st[1] \o st[2],
    keep |-> -1, ifdAt |-> 0, w |-> 2, h |-> 2,
    bad |-> 0, gap |-> 0, trail |-> 0] :
     le \in BOOLEAN,
     c \in {<<1, "none">>, <<5, "lzw">>, <<8, "zlib">>, <<32946, "raw">>},
     st \in {<<<<1>>, <<-2, 258>>>>, <<<<1, -2, 258>>, <<-32768>>>>,
             <<<<1, -2>>, <<258, -32768>>>>}}

InitIfd ==
  /\ \/ src \in IfdInputs /\ buffer = BuildIfd(src)
     \/ src \in UnevenInputs /\ buffer = Build(src)
  /\ width = src.w
  /\ height = src.h
  /\ decoded = Pending
  /\ MaskIdle
  /\ LzwIdle
  /\ InflateIdle
  /\ HandlerIdle
  /\ UiIdle

SpecIfd == InitIfd /\ [][NextTiff]_vars

\* What the value field of an entry holds when it holds a value: 16 bits
\* for type 3, 32 bits for every other type.
InlineValue(e, le) ==
  IF e.ftype = 3 THEN getUint16(e.field, 0, le) ELSE getUint32(e.field, 0, le)

\* The entry gives its list one value in the field, or the counted
\* elements of an array that lies wholly inside the buffer.
ListGiven(e) == e.count = 1 \/ (e.count > 1 /\ Len(e.array) = e.count)

\* The parsed state after an entry, as the entry's description gives it:
\* the value in the field for tags 259 and 278, for tags 273 and 279 the
\* value in the field or the elements of the array, nothing for other tags.
DescribedEntry(e, le, st) ==
  CASE e.tag = 259 -> [st EXCEPT !.compression = InlineValue(e, le)]
    [] e.tag = 278 -> [st EXCEPT !.rowsPerStrip = InlineValue(e, le)]
    [] e.tag = 273 ->
         [st EXCEPT !.stripOffsets =
            IF e.count = 1 THEN <<InlineValue(e, le)>> ELSE e.array]
    [] e.tag = 279 ->
         [st EXCEPT !.stripByteCounts =
            IF e.count = 1 THEN <<InlineValue(e, le)>> ELSE e.array]
    [] OTHER -> st

RECURSIVE DescribedIfd(_, _, _, _)
DescribedIfd(entries, le, k, st) ==
  IF k > Len(entries) THEN st
  ELSE DescribedIfd(entries, le, k + 1, DescribedEntry(entries[k], le, st))

\* The IFD holds as many entries as it claims, and every strip list entry
\* gives its list.
Described ==
  /\ src.kind = "ifd"
  /\ src.claimed = Len(src.entries)
  /\ \A k \in 1..Len(src.entries) :
        src.entries[k].tag \in {273, 279} => ListGiven(src.entries[k])

\* Some entry of the IFD is an array of 16-bit elements.
HasShortArray ==
  src.kind = "ifd" /\ \E k \in 1..Len(src.entries) :
     src.entries[k].ftype = 3 /\ src.entries[k].count > 1

\* C25: the parser has read an IFD in which StripByteCounts is an array of
\* three 16-bit elements 2, 2, 2 inside the buffer, and the byte counts it
\* holds are not these elements: it read the array four bytes at a time.
C25_ShortArrayReadAsLongs ==
  /\ decoded # Pending
  /\ Described
  /\ \E k \in 1..Len(src.entries) :
        /\ src.entries[k].tag = 279
        /\ src.entries[k].ftype = 3
        /\ src.entries[k].array = <<2, 2, 2>>
  /\ DescribedIfd(src.entries, src.le, 1, IfdInit(height)).stripByteCounts = <<2, 2, 2>>
  /\ ReadIfd(buffer, height).stripByteCounts # <<2, 2, 2>>
  /\ ReadIfd(buffer, height).stripByteCounts[1] > 65535

\* C26: a two-strip raster of one row per strip has been decoded whose
\* first strip holds a single sample: the first sample of the second strip
\* lies at pixel index 1, inside the first strip's row, and not at pixel
\* index rowsPerStrip x width = 2, where the second strip's row starts.
C26_StripWrittenBehindPrevious ==
  /\ decoded # Pending
  /\ src.kind = "strips"
  /\ src.comp = 1
  /\ src.strips = <<<<1>>, <<-2, 258>>>>
  /\ decoded.status = "raster"
  /\ decoded.data = <<1, -2, 258, 0>>
  /\ decoded.data[src.rows * src.w + 1] # src.strips[2][1]

\* C27: a buffer that passes the three header checks decodes to a raster:
\* parseTiffInt16ToFloat32 raises nothing, whatever the compression code,
\* the entry count, the strip offsets and byte counts, the places of the
\* arrays and the lengths of the two lists.
C27_NoErrorAfterHeader ==
  (decoded # Pending /\ HeaderError(buffer) = "none")
  => /\ decoded.status = "raster"
     /\ Len(decoded.data) = width * height

\* A buffer has been decoded whose IFD claims 300 entries and holds fewer,
\* and in which three strip offsets stand against one byte count that
\* points past the end of the buffer.
C27_Witness ==
  /\ decoded # Pending
  /\ decoded.status = "raster"
  /\ src.kind = "ifd"
  /\ src.claimed = 300
  /\ Len(ReadIfd(buffer, height).stripOffsets) = 3
  /\ ReadIfd(buffer, height).stripByteCounts = <<FarOffset>>
  /\ ReadIfd(buffer, height).compression = 5

====
